---- MODULE Spec2Model ----
(***************************************************************************)
(* A model of the fuglelyd analysis core: the Artskart taxon lookup        *)
(* (functions/artskart_api.py), the taxonomic enrichment of a detection    *)
(* batch (analyser_lyd_main.py), the filename timestamp extractor and the  *)
(* temporal analysis (functions/temporal_analysis.py) and the statistics   *)
(* report (functions/statistics.py).                                       *)
(*                                                                         *)
(* Python values are modelled as follows.  None / pd.NA / NaN / NaT is the *)
(* empty sequence <<>> and a present value x is <<x>>.  A JSON value that  *)
(* the code tests with isinstance(.., dict) carries the flag wf (it is a   *)
(* JSON object) ; a JSON object is a record whose absent keys hold their   *)
(* .get() default.  Text that the code inspects character by character     *)
(* (filenames, red-list statuses) is a sequence of one-character strings.  *)
(***************************************************************************)
EXTENDS Integers, Sequences, FiniteSets, TLC

VARIABLES
    \* ---- fetch_artskart_taxon_info_by_name, one call
    f_name,      \* the scientific_name_str argument
    f_resp,      \* what requests.get / raise_for_status / json() produce
    f_out,       \* the outcome of the call
    f_pc,        \* "call" | "returned" | "raised"
    \* ---- enrich_detections_with_taxonomy, one run
    e_world,     \* what the service answers for each name during the run
    e_in,        \* the detections the DataFrame was built from
    e_df,        \* the DataFrame df (a list of rows)
    e_cache,     \* artskart_info_cache
    e_famcache,  \* family_nor_names_cache
    e_ordcache,  \* order_nor_names_cache
    e_lookups,   \* per name, the calls of the service made so far
    e_todo,      \* the names the running loop still has to visit
    e_pc,        \* "start" | "species" | "family" | "order" | "done" | "raised"
    \* ---- extract_timestamp_from_filename, one call
    x_filename,  \* the filename argument, a sequence of characters
    x_tz,        \* the local zone of the machine, seconds east of UTC
    x_out,       \* the returned datetime, or None
    x_pattern,   \* the pattern that gave the result, 0 for None
    x_pc,        \* "call" | "returned"
    \* ---- the plot and the statistics report of run_full_analysis
    t_df,        \* the enriched detections
    t_tz,        \* the local zone of the machine, seconds east of UTC
    t_plot,      \* what create_joypy_plot came to
    t_report,    \* what generate_statistics_report returned and logged
    t_pc,        \* "plot" | "statistics" | "done"
    \* ---- get_norwegian_popular_name, one call
    n_pop,       \* the popular_names_list argument
    n_out,       \* the returned name, or None
    n_pc,        \* "call" | "returned"
    \* ---- the red-list status normalisation of one cell
    s_raw,       \* the cell of Redlist_Status
    s_out,       \* the cell after the normalisation
    s_pc,        \* "call" | "returned"
    \* ---- the temporal analyses of one frame of detection times
    a_df,        \* the frame after detection_datetime is computed
    a_timed,     \* the outcome of the time features
    a_daily,     \* the outcome of analyze_daily_activity_patterns
    a_species,   \* the outcome of analyze_species_temporal_patterns
    a_pc,        \* "features" | "daily" | "species" | "done" | "raised"
    \* ---- calculate_summary_statistics on one frame with confidence scores
    r_df,        \* the enriched detections
    r_tz,        \* the zone offset of the machine
    r_bands,     \* stats["confidence_distribution"] once it is computed
    r_stats,     \* the outcome of the call
    r_pc,        \* "start" | "temporal" | "returned" | "raised"
    \* ---- the counts of one frame and their listing
    u_df,        \* the enriched detections
    u_stats,     \* the species and red-list counts
    u_lines,     \* the red-list lines printed
    u_pc,        \* "count" | "print" | "printed"
    \* ---- split_audio_by_detection, one call
    c_df,        \* detections_df
    c_cap,       \* max_segments_per_species
    c_sel,       \* selected_detections
    c_todo,      \* the selected detections not yet processed
    c_saved,     \* the detections whose segment is saved
    c_pc,        \* "select" | "split" | "returned"
    \* ---- the enriched detections, saved and read back
    v_df,        \* detections_df as saved
    v_file,      \* the file at output_csv_path
    v_read,      \* the frame read by generate_statistics_report
    v_stats,     \* the counts of the frame read
    v_pc,        \* "save" | "saved" | "read" | "counted"
    \* ---- a ProgressTracker and its callers
    k_tracker,   \* progress, status and cancel_requested
    k_lock,      \* the holder of self.lock, or "free"
    k_call,      \* the call every thread is in
    k_answer,    \* what get_progress and is_cancelled returned
    \* ---- the analysis page of one session and its analysis threads
    h_running,   \* st.session_state.analysis_running
    h_cancel,    \* st.session_state.cancel_requested
    h_shown,     \* st.session_state.analysis_progress and analysis_status
    h_pc,        \* "page" | "monitor" | "joining"
    h_thread,    \* the thread run_analysis_with_progress monitors
    h_button,    \* cancel_button
    w_pc,        \* where every analysis thread is in run()
    w_tracker,   \* the ProgressTracker of every thread
    w_exception, \* whether the thread kept an exception
    \* ---- run_full_analysis, one run
    p_detections, \* all_detections_list
    p_splitting, \* run_audio_splitting
    p_df,        \* detections_df
    p_lookups,   \* the names the enrichment looked up
    p_csv,       \* the enriched detections are written
    p_plot,      \* "" | "plotted" | "error"
    p_split,     \* "" | "disabled" | "missing column" | "selected"
    p_stats,     \* "" | "report" | "{}"
    p_pc         \* "detections" | "enrich" | "save" | "plot" | "split" |
                 \* "statistics" | "finished" | "exited" | "raised"

fetchVars == <<f_name, f_resp, f_out, f_pc>>

enrichVars == <<e_world, e_in, e_df, e_cache, e_famcache, e_ordcache,
                e_lookups, e_todo, e_pc>>

extractVars == <<x_filename, x_tz, x_out, x_pattern, x_pc>>

temporalVars == <<t_df, t_tz, t_plot, t_report, t_pc>>

localNameVars == <<n_pop, n_out, n_pc>>

pipelineVars == <<p_detections, p_splitting, p_df, p_lookups, p_csv, p_plot,
                  p_split, p_stats, p_pc>>

statusVars == <<s_raw, s_out, s_pc>>

activityVars == <<a_df, a_timed, a_daily, a_species, a_pc>>

reportVars == <<r_df, r_tz, r_bands, r_stats, r_pc>>

summaryVars == <<u_df, u_stats, u_lines, u_pc>>

selectVars == <<c_df, c_cap, c_sel, c_todo, c_saved, c_pc>>

csvVars == <<v_df, v_file, v_read, v_stats, v_pc>>

trackerVars == <<k_tracker, k_lock, k_call, k_answer>>

analysisVars == <<h_running, h_cancel, h_shown, h_pc, h_thread, h_button, w_pc, w_tracker, w_exception>>

vars == <<fetchVars, enrichVars, extractVars, temporalVars, localNameVars,
          pipelineVars, statusVars, activityVars, reportVars, summaryVars,
          selectVars,
          csvVars,
          trackerVars,
          analysisVars>>

-----------------------------------------------------------------------------
(* Generic helpers *)

None == <<>>
Some(x) == <<x>>

Min(S) == CHOOSE m \in S : \A k \in S : m <= k

\* All sequences over S of length lo..hi
SeqsBetween(S, lo, hi) == UNION {[1..n -> S] : n \in lo..hi}

-----------------------------------------------------------------------------
(* The Artskart service response and the taxon lookup                      *)

\* Bounds
MaxCands == 2

NoName == ""

\* What the HTTP exchange can end in (artskart_api.py lines 23-25, 76-87):
\*   "network"  requests.get raises ConnectionError (a RequestException)
\*   "timeout"  requests.get raises Timeout (a RequestException)
\*   "http"     raise_for_status raises HTTPError
\*   "badjson"  response.json() raises a JSONDecodeError (a ValueError)
\*   "notlist"  the body decodes to a JSON value that is not a list
\*   "list"     the body decodes to a list, held in body
FailKinds == {"network", "timeout", "http", "badjson"}

\* An alternate-name entry of a candidate's "ScientificNames" list
NameEntry(wf, sn, acc) == [wf |-> wf, ScientificName |-> sn, Accepted |-> acc]

BadEntry == NameEntry(FALSE, NoName, FALSE)

\* A candidate of the response list.  wf = FALSE: the element is no JSON object.
Candidate(wf, vsn, id, hasNames, names, fam, ord, status, pop) ==
    [wf |-> wf, ValidScientificName |-> vsn, ValidScientificNameId |-> id,
     hasNames |-> hasNames, ScientificNames |-> names,
     Family |-> fam, Order |-> ord, Status |-> status, PopularNames |-> pop]

Response(kind, body) == [kind |-> kind, body |-> body]

\* Outcomes of one call: a taxon (the idx-th element of the body), None, or an
\* exception that no except clause of the function catches.
Returned(idx) == [kind |-> "taxon", idx |-> idx]
ReturnedNone == [kind |-> "none", idx |-> 0]
Raised == [kind |-> "raise", idx |-> 0]

\* The scan that keeps the last exact match instead of the first
RECURSIVE ExactLoopLast(_, _, _)
ExactLoopLast(results, name, i) ==
    IF i > Len(results) THEN 0
    ELSE LET later == ExactLoopLast(results, name, i + 1)
         IN  IF later # 0 THEN later
             ELSE IF results[i].wf /\ results[i].ValidScientificName = name THEN i
             ELSE 0

\* First loop (lines 42-47): the first dict whose ValidScientificName equals the
\* term; 0 when the loop ends without returning.
RECURSIVE ExactLoop(_, _, _)
ExactLoop(results, name, i) ==
    IF i > Len(results) THEN 0
    ELSE IF results[i].wf /\ results[i].ValidScientificName = name THEN i
    ELSE ExactLoop(results, name, i + 1)

\* Second loop (lines 50-57), at candidate i, entry j.  name_entry.get on an
\* entry that is no dict raises AttributeError, which lines 76-87 do not catch.
RECURSIVE AcceptedLoop(_, _, _, _)
AcceptedLoop(results, name, i, j) ==
    IF i > Len(results) THEN ReturnedNone
    ELSE IF ~(results[i].wf /\ results[i].hasNames)
         THEN AcceptedLoop(results, name, i + 1, 1)
    ELSE IF j > Len(results[i].ScientificNames)
         THEN AcceptedLoop(results, name, i + 1, 1)
    ELSE LET e == results[i].ScientificNames[j]
         IN  IF ~e.wf THEN Raised
             ELSE IF e.ScientificName = name /\ e.Accepted THEN Returned(i)
             ELSE AcceptedLoop(results, name, i, j + 1)

\* Lines 62-69: results[0] is taken as a best guess; building the warning calls
\* first_taxon_info.get, which raises AttributeError when results[0] is no dict.
FirstResult(results) ==
    IF results[1].wf THEN Returned(1) ELSE Raised

MatchPolicy(results, name) ==
    LET exact == ExactLoop(results, name, 1)
    IN  IF exact # 0 THEN Returned(exact)
        ELSE LET acc == AcceptedLoop(results, name, 1, 1)
             IN  IF acc.kind # "none" THEN acc
                 ELSE FirstResult(results)

fetch_artskart_taxon_info_by_name(name, resp) ==
    IF resp.kind \in FailKinds THEN ReturnedNone          \* lines 76-87
    ELSE IF resp.kind = "notlist" THEN ReturnedNone       \* lines 27-31
    ELSE IF resp.body = <<>> THEN ReturnedNone            \* lines 33-37
    ELSE MatchPolicy(resp.body, name)

-----------------------------------------------------------------------------
(* SpecFetch: one call of the lookup on every bounded response             *)

FetchNames == {"a", "b"}

EntryLists ==
    { <<>>,
      <<NameEntry(TRUE, "a", TRUE)>>,
      <<NameEntry(TRUE, "a", FALSE)>>,
      <<BadEntry>>,
      <<BadEntry, NameEntry(TRUE, "a", TRUE)>>,
      <<NameEntry(TRUE, "a", TRUE), BadEntry>> }

\* The candidate shapes of the bounded check; the id is set to the position.
CandShapes ==
    {Candidate(FALSE, NoName, 0, FALSE, <<>>, None, None, None, None)}
    \cup {Candidate(TRUE, v, 0, FALSE, <<>>, None, None, None, None) :
             v \in FetchNames \cup {NoName}}
    \cup {Candidate(TRUE, v, 0, TRUE, es, None, None, None, None) :
             v \in {"b", NoName}, es \in EntryLists}

Numbered(cs) == [i \in 1..Len(cs) |-> [cs[i] EXCEPT !.ValidScientificNameId = i]]

FetchResponses ==
    {Response(k, <<>>) : k \in FailKinds \cup {"notlist"}}
    \cup {Response("list", Numbered(cs)) : cs \in SeqsBetween(CandShapes, 0, MaxCands)}

FetchIdle ==
    /\ f_name = NoName
    /\ f_resp = Response("network", <<>>)
    /\ f_out = ReturnedNone
    /\ f_pc = "idle"

FetchInit ==
    /\ f_name \in FetchNames
    /\ f_resp \in FetchResponses
    /\ f_out = ReturnedNone
    /\ f_pc = "call"

FetchCall ==
    /\ f_pc = "call"
    /\ f_out' = fetch_artskart_taxon_info_by_name(f_name, f_resp)
    /\ f_pc' = IF f_out'.kind = "raise" THEN "raised" ELSE "returned"
    /\ UNCHANGED <<f_name, f_resp>>


\* A response list all of whose elements and alternate-name entries are JSON
\* objects
WellFormedList(body) ==
    \A i \in 1..Len(body) :
        /\ body[i].wf
        /\ \A j \in 1..Len(body[i].ScientificNames) : body[i].ScientificNames[j].wf

ExactSet(body, name) ==
    {i \in 1..Len(body) : body[i].ValidScientificName = name}

AcceptedSet(body, name) ==
    {i \in 1..Len(body) :
        /\ body[i].hasNames
        /\ \E j \in 1..Len(body[i].ScientificNames) :
              /\ body[i].ScientificNames[j].ScientificName = name
              /\ body[i].ScientificNames[j].Accepted}

\* C4: on a non-empty list of well-formed candidates the call returns the first
\* candidate whose canonical name equals the term; if there is none, the first
\* candidate with an accepted alternate name equal to the term; if there is none
\* either, the first candidate of the list.
C4_MatchingPolicy ==
    (/\ f_pc \in {"returned", "raised"}
     /\ f_resp.kind = "list"
     /\ f_resp.body # <<>>
     /\ WellFormedList(f_resp.body))
    => LET exact == ExactSet(f_resp.body, f_name)
           acc == AcceptedSet(f_resp.body, f_name)
       IN  f_out = Returned(IF exact # {} THEN Min(exact)
                            ELSE IF acc # {} THEN Min(acc)
                            ELSE 1)

\* C4 witness: two well-formed candidates with the term as canonical name, the
\* first of them returned
C4_Witness ==
    /\ f_pc = "returned"
    /\ f_resp.kind = "list"
    /\ WellFormedList(f_resp.body)
    /\ ExactSet(f_resp.body, f_name) = {1, 2}
    /\ f_out = Returned(1)

\* A response the spec calls malformed: not a list, or a list holding an element
\* or an alternate-name entry that is no JSON object
Malformed(resp) ==
    \/ resp.kind = "notlist"
    \/ resp.kind = "list" /\ ~WellFormedList(resp.body)

\* C5: the call returns None and does not raise when the service returns no
\* candidate, the exchange fails, or the response is malformed.
C5_NoneOnFailure ==
    (/\ f_pc \in {"returned", "raised"}
     /\ \/ f_resp.kind \in FailKinds
        \/ f_resp.kind = "list" /\ f_resp.body = <<>>
        \/ Malformed(f_resp))
    => (f_pc = "returned" /\ f_out = ReturnedNone)

-----------------------------------------------------------------------------
(* get_norwegian_popular_name and the red-list status normalisation        *)

\* str.lower() on the characters that occur in the modelled language tags
Lower(c) ==
    CASE c = "N" -> "n" [] c = "B" -> "b" [] c = "O" -> "o" [] c = "E" -> "e"
      [] OTHER -> c

\* lang.startswith("nb") after lang = ....lower()
StartsWithNb(lang) ==
    Len(lang) >= 2 /\ Lower(lang[1]) = "n" /\ Lower(lang[2]) = "b"

\* An entry of a "PopularNames" list; an absent "language" is "" and an absent
\* "Preffered" is False, as their .get defaults say
PopEntry(wf, lang, pref, name) ==
    [wf |-> wf, language |-> lang, Preffered |-> pref, Name |-> name]

\* The value under "PopularNames": a list (isList) of entries, or something else
PopList(isList, items) == [isList |-> isList, items |-> items]

NoPopularNames == PopList(FALSE, <<>>)

\* The first pass without its test of the preferred flag
RECURSIVE PreferredPassAnyFlag(_, _)
PreferredPassAnyFlag(items, i) ==
    IF i > Len(items) THEN 0
    ELSE IF items[i].wf /\ StartsWithNb(items[i].language) THEN i
    ELSE PreferredPassAnyFlag(items, i + 1)

RECURSIVE PreferredPass(_, _)
PreferredPass(items, i) ==
    IF i > Len(items) THEN 0
    ELSE IF items[i].wf /\ StartsWithNb(items[i].language) /\ items[i].Preffered
         THEN i
    ELSE PreferredPass(items, i + 1)

RECURSIVE AnyBokmalPass(_, _)
AnyBokmalPass(items, i) ==
    IF i > Len(items) THEN 0
    ELSE IF items[i].wf /\ StartsWithNb(items[i].language) THEN i
    ELSE AnyBokmalPass(items, i + 1)

get_norwegian_popular_name(pop) ==
    IF ~pop.isList \/ pop.items = <<>> THEN None
    ELSE LET p == PreferredPass(pop.items, 1)
         IN  IF p # 0 THEN pop.items[p].Name
             ELSE LET a == AnyBokmalPass(pop.items, 1)
                  IN  IF a # 0 THEN pop.items[a].Name ELSE None

\* "," in x
HasComma(x) == \E i \in 1..Len(x) : x[i] = ","

\* x.split(",")[0]
RECURSIVE BeforeComma(_)
BeforeComma(x) ==
    IF x = <<>> \/ Head(x) = "," THEN <<>>
    ELSE <<Head(x)>> \o BeforeComma(Tail(x))

RECURSIVE LStrip(_)
LStrip(x) == IF x # <<>> /\ Head(x) = " " THEN LStrip(Tail(x)) ELSE x

RECURSIVE RStrip(_)
RStrip(x) ==
    IF x # <<>> /\ x[Len(x)] = " " THEN RStrip(SubSeq(x, 1, Len(x) - 1)) ELSE x

\* Stripping on the left only
StripLeftOnly(x) == LStrip(x)

\* str.strip()
Strip(x) == RStrip(LStrip(x))

\* The lambda of lines 199-203 on one cell (a status text or NA)
NormalizeStatus(st) ==
    IF st # None /\ HasComma(st[1]) THEN Some(Strip(BeforeComma(st[1]))) ELSE st

-----------------------------------------------------------------------------
(* enrich_detections_with_taxonomy                                         *)

\* Bounds
MaxDet == 2

EmptyMap == [x \in {} |-> None]

Put(m, k, v) == [x \in DOMAIN m \cup {k} |-> IF x = k THEN v ELSE m[x]]

\* One classifier detection (birdnetlib_api.py lines 24-30)
Detection(sci, conf, st, en, path, fname) ==
    [scientific_name |-> sci, confidence |-> conf, start_time |-> st,
     end_time |-> en, filepath |-> path, filename |-> fname]

OriginalFields ==
    {"scientific_name", "confidence", "start_time", "end_time", "filepath",
     "filename"}

\* A row of the DataFrame after initialize_dataframe: the detection's fields
\* and the enrichment columns, all NA
InitRow(det) ==
    [scientific_name |-> det.scientific_name, confidence |-> det.confidence,
     start_time |-> det.start_time, end_time |-> det.end_time,
     filepath |-> det.filepath, filename |-> det.filename,
     validScientificNameId |-> None, Species_ScientificNameId |-> None,
     Species_NorwegianName |-> None,
     Family_ScientificName |-> None, Family_NorwegianName |-> None,
     Order_ScientificName |-> None, Order_NorwegianName |-> None,
     Family_ScientificNameId |-> None, Order_ScientificNameId |-> None,
     Redlist_Status |-> None]

initialize_dataframe(dets) == [i \in 1..Len(dets) |-> InitRow(dets[i])]

\* Series.dropna().unique(): the present values in order of first appearance
RECURSIVE UniquePresent(_, _)
UniquePresent(col, seen) ==
    IF col = <<>> THEN <<>>
    ELSE IF Head(col) = None \/ Head(col)[1] \in seen
         THEN UniquePresent(Tail(col), seen)
    ELSE <<Head(col)[1]>> \o UniquePresent(Tail(col), seen \cup {Head(col)[1]})

Column(df, c) == [i \in 1..Len(df) |-> df[i][c]]

\* The variant that treats a cached None as absent (if not cache.get(name))
NeedsLookupTruthy(cache, name) ==
    name \notin DOMAIN cache \/ cache[name] = None

\* name not in artskart_info_cache (lines 130, 219, 255)
NeedsLookup(cache, name) == name \notin DOMAIN cache

\* What a call that returned leaves for the cache: the taxon or None
TaxonOf(resp, out) ==
    IF out.kind = "taxon" THEN Some(resp.body[out.idx]) ELSE None

\* Lines 156-188 on one row: the taxon cached for the row's name, if any,
\* fills the id, the Norwegian species name, family, order and status
EnrichRow(row, cache) ==
    LET sci == row.scientific_name
        info == IF sci # None /\ sci[1] \in DOMAIN cache THEN cache[sci[1]] ELSE None
    IN  IF info # None
        THEN [row EXCEPT
                !.validScientificNameId = Some(info[1].ValidScientificNameId),
                !.Species_ScientificNameId = Some(info[1].ValidScientificNameId),
                !.Species_NorwegianName =
                    get_norwegian_popular_name(info[1].PopularNames),
                !.Family_ScientificName = info[1].Family,
                !.Order_ScientificName = info[1].Order,
                !.Redlist_Status = NormalizeStatus(info[1].Status)]
        ELSE [row EXCEPT
                !.validScientificNameId = None,
                !.Species_ScientificNameId = None,
                !.Species_NorwegianName = None,
                !.Family_ScientificName = None,
                !.Order_ScientificName = None,
                !.Redlist_Status = None]

\* The variant that keeps only the rows whose species resolved
ApplyRowsResolvedOnly(df, cache) ==
    LET Resolved(row) ==
            /\ row.scientific_name # None
            /\ row.scientific_name[1] \in DOMAIN cache
            /\ cache[row.scientific_name[1]] # None
        kept == SelectSeq(df, Resolved)
    IN  [i \in 1..Len(kept) |-> EnrichRow(kept[i], cache)]

\* Lines 149-203: one value per row for each new column, assigned to df
ApplyRows(df, cache) == [i \in 1..Len(df) |-> EnrichRow(df[i], cache)]

\* The variant that gives the name to the first row only
MapNamesFirstRow(df, keyCol, valCol, names) ==
    [i \in 1..Len(df) |->
        [df[i] EXCEPT ![valCol] =
            IF i = 1 /\ df[i][keyCol] # None /\ df[i][keyCol][1] \in DOMAIN names
            THEN names[df[i][keyCol][1]] ELSE None]]

\* df[col].map(names_cache).fillna(pd.NA) (lines 242-244, 274-276)
MapNames(df, keyCol, valCol, names) ==
    [i \in 1..Len(df) |->
        [df[i] EXCEPT ![valCol] =
            IF df[i][keyCol] # None /\ df[i][keyCol][1] \in DOMAIN names
            THEN names[df[i][keyCol][1]] ELSE None]]

\* Lines 110-125: the guard, and the distinct species names of the batch
EnrichStart ==
    /\ e_pc = "start"
    /\ IF \A i \in 1..Len(e_df) : e_df[i].scientific_name = None
       THEN e_pc' = "done" /\ e_todo' = <<>>
       ELSE /\ e_pc' = "species"
            /\ e_todo' = UniquePresent(Column(e_df, "scientific_name"), {})
    /\ UNCHANGED <<e_world, e_in, e_df, e_cache, e_famcache, e_ordcache, e_lookups>>

\* Lines 127-145, one iteration: the lookup runs inside try/except Exception,
\* so an outcome of None and a raised exception both cache None
SpeciesLookup ==
    /\ e_pc = "species"
    /\ e_todo # <<>>
    /\ LET name == Head(e_todo)
           out == fetch_artskart_taxon_info_by_name(name, e_world[name])
       IN  IF NeedsLookup(e_cache, name)
           THEN /\ e_lookups' = [e_lookups EXCEPT ![name] = @ + 1]
                /\ e_cache' = Put(e_cache, name, TaxonOf(e_world[name], out))
           ELSE UNCHANGED <<e_lookups, e_cache>>
    /\ e_todo' = Tail(e_todo)
    /\ UNCHANGED <<e_world, e_in, e_df, e_famcache, e_ordcache, e_pc>>

\* Lines 147-213: the columns are filled from the cache, the status is
\* normalised, and the distinct family names are collected
ApplyTaxonomy ==
    /\ e_pc = "species"
    /\ e_todo = <<>>
    /\ e_df' = ApplyRows(e_df, e_cache)
    /\ e_todo' = UniquePresent(Column(e_df', "Family_ScientificName"), {})
    /\ e_pc' = "family"
    /\ UNCHANGED <<e_world, e_in, e_cache, e_famcache, e_ordcache, e_lookups>>

\* One iteration of the family loop (lines 215-240) or of the order loop
\* (lines 252-272).  The lookup is not inside a try: an exception leaves the
\* function.  names is the loop's own cache of Norwegian names.
SecondPassLookup(names) ==
    /\ e_todo # <<>>
    /\ LET name == Head(e_todo)
           out == fetch_artskart_taxon_info_by_name(name, e_world[name])
           fresh == NeedsLookup(e_cache, name)
           info == IF fresh THEN TaxonOf(e_world[name], out) ELSE e_cache[name]
       IN  /\ e_lookups' = IF fresh THEN [e_lookups EXCEPT ![name] = @ + 1]
                           ELSE e_lookups
           /\ IF fresh /\ out.kind = "raise"
              THEN /\ e_pc' = "raised"
                   /\ UNCHANGED <<e_cache, e_todo>>
                   /\ names' = names
              ELSE /\ e_pc' = e_pc
                   /\ e_cache' = IF fresh THEN Put(e_cache, name, info) ELSE e_cache
                   /\ e_todo' = Tail(e_todo)
                   /\ names' = Put(names, name,
                                   IF info # None
                                   THEN get_norwegian_popular_name(info[1].PopularNames)
                                   ELSE None)
    /\ UNCHANGED <<e_world, e_in, e_df>>

FamilyLookup ==
    /\ e_pc = "family"
    /\ SecondPassLookup(e_famcache)
    /\ UNCHANGED e_ordcache

\* Lines 242-250: the family names are mapped onto the rows and the distinct
\* order names are collected
FamilyMap ==
    /\ e_pc = "family"
    /\ e_todo = <<>>
    /\ e_df' = MapNames(e_df, "Family_ScientificName", "Family_NorwegianName",
                        e_famcache)
    /\ e_todo' = UniquePresent(Column(e_df, "Order_ScientificName"), {})
    /\ e_pc' = "order"
    /\ UNCHANGED <<e_world, e_in, e_cache, e_famcache, e_ordcache, e_lookups>>

OrderLookup ==
    /\ e_pc = "order"
    /\ SecondPassLookup(e_ordcache)
    /\ UNCHANGED e_famcache

\* Lines 274-284: the order names are mapped onto the rows and df is returned
OrderMap ==
    /\ e_pc = "order"
    /\ e_todo = <<>>
    /\ e_df' = MapNames(e_df, "Order_ScientificName", "Order_NorwegianName",
                        e_ordcache)
    /\ e_pc' = "done"
    /\ UNCHANGED <<e_world, e_in, e_cache, e_famcache, e_ordcache, e_lookups,
                   e_todo>>

-----------------------------------------------------------------------------
(* SpecEnrich: one enrichment run on every bounded batch and service        *)

SpeciesNames == {"A", "B"}

\* "A" is also a family name and "F" also an order name
EnrichNames == {"A", "B", "F", "O"}

Bokmal == <<"n", "b">>
English == <<"e", "n">>

NorwegianOf(n) ==
    CASE n = "A" -> "ravn" [] n = "B" -> "meis" [] n = "F" -> "finker"
      [] OTHER -> "spurvefugler"

\* A taxon with family F, order O, one status and a preferred Bokmal name
TaxonPlain(n) ==
    Candidate(TRUE, n, 1, FALSE, <<>>, Some("F"), Some("O"),
              Some(<<"L", "C">>),
              PopList(TRUE, <<PopEntry(TRUE, English, TRUE, Some("bird")),
                              PopEntry(TRUE, Bokmal, TRUE, Some(NorwegianOf(n)))>>))

\* A taxon whose family is the species name A and whose order is the family
\* name F, with a comma-joined status and no Norwegian name
TaxonShared(n) ==
    Candidate(TRUE, n, 2, FALSE, <<>>, Some("A"), Some("F"),
              Some(<<"V", "U", ",", " ", "N", "T">>),
              PopList(TRUE, <<PopEntry(TRUE, English, FALSE, Some("bird"))>>))

NotADict == Candidate(FALSE, NoName, 0, FALSE, <<>>, None, None, None, NoPopularNames)

EnrichResponses(n) ==
    { Response("timeout", <<>>),
      Response("list", <<>>),
      Response("list", <<TaxonPlain(n)>>),
      Response("list", <<TaxonShared(n)>>),
      Response("list", <<NotADict>>) }

Worlds == {w \in [EnrichNames -> UNION {EnrichResponses(n) : n \in EnrichNames}] :
              \A n \in EnrichNames : w[n] \in EnrichResponses(n)}

\* The i-th detection of a batch: its fields tell the rows apart
DetectionAt(i, sci) ==
    Detection(sci, 90 - i, 3 * (i - 1), 3 * i, "/in/rec.wav", "rec.wav")

Batches ==
    {[i \in 1..Len(names) |-> DetectionAt(i, names[i])] :
        names \in SeqsBetween({Some(n) : n \in SpeciesNames} \cup {None}, 1, MaxDet)}

EnrichIdle ==
    /\ e_world = EmptyMap
    /\ e_in = <<>>
    /\ e_df = <<>>
    /\ e_cache = EmptyMap
    /\ e_famcache = EmptyMap
    /\ e_ordcache = EmptyMap
    /\ e_lookups = EmptyMap
    /\ e_todo = <<>>
    /\ e_pc = "idle"

EnrichInit ==
    /\ e_world \in Worlds
    /\ e_in \in Batches
    /\ e_df = initialize_dataframe(e_in)
    /\ e_cache = EmptyMap
    /\ e_famcache = EmptyMap
    /\ e_ordcache = EmptyMap
    /\ e_lookups = [n \in EnrichNames |-> 0]
    /\ e_todo = <<>>
    /\ e_pc = "start"

-----------------------------------------------------------------------------
(* Claims about the enrichment run *)

\* C1: the DataFrame that enrichment works on and returns holds exactly one row
\* per input detection, in input order, and the i-th row's original fields
\* (scientific_name, confidence, start_time, end_time, filepath, filename) are
\* those of the i-th detection, whether or not its species resolved.
C1_OneRecordPerDetection ==
    e_pc # "idle" =>
        /\ Len(e_df) = Len(e_in)
        /\ \A i \in 1..Len(e_df) :
              \A c \in OriginalFields : e_df[i][c] = e_in[i][c]

\* C1 witness: a returned batch of two detections, the first unresolved and the
\* second resolved
C1_Witness ==
    /\ e_pc = "done"
    /\ Len(e_df) = 2
    /\ e_df[1].scientific_name # None
    /\ e_df[1].validScientificNameId = None
    /\ e_df[2].validScientificNameId # None

\* C2: within one run the service is called at most once per distinct name,
\* over the species, family and order loops together.
C2_AtMostOneLookupPerName ==
    e_pc # "idle" => \A n \in EnrichNames : e_lookups[n] <= 1

\* C2 witness: the run is over, the lookup of species A found nothing, A is
\* also the family of a row, and A was looked up once
C2_Witness ==
    /\ e_pc = "done"
    /\ e_lookups["A"] = 1
    /\ e_cache["A"] = None
    /\ \E i \in 1..Len(e_df) : e_df[i].scientific_name = Some("A")
    /\ \E i \in 1..Len(e_df) : e_df[i].Family_ScientificName = Some("A")

\* A name whose lookup yields no taxon: the exchange fails, nothing is found,
\* or the payload is malformed
LookupFails(n) ==
    fetch_artskart_taxon_info_by_name(n, e_world[n]).kind # "taxon"

\* C3: a failing lookup never aborts the run, in the species loop or in the
\* family and order loops: the name is cached as not found and the run goes on
\* to return a row for every detection.
C3_LookupFailureNeverAborts ==
    e_pc # "idle" =>
        /\ e_pc # "raised"
        /\ \A n \in EnrichNames :
              (e_lookups[n] > 0 /\ LookupFails(n)) =>
                  (n \in DOMAIN e_cache /\ e_cache[n] = None)
        /\ e_pc = "done" => Len(e_df) = Len(e_in)

\* The Norwegian name of the taxon that name n resolves to, if it resolves
ResolvedLocalName(n) ==
    LET out == fetch_artskart_taxon_info_by_name(n, e_world[n])
    IN  IF out.kind = "taxon"
        THEN get_norwegian_popular_name(e_world[n].body[out.idx].PopularNames)
        ELSE None

\* The columns that the per-detection loop fills
SpeciesLoopFields ==
    {"validScientificNameId", "Species_ScientificNameId", "Species_NorwegianName",
     "Family_ScientificName", "Order_ScientificName", "Redlist_Status"}

\* Once the family names are mapped, a row with a family name carries the
\* Norwegian name that the family name resolves to; likewise the orders once
\* the run has returned
FamilyOrderNamesMapped ==
    /\ e_pc \in {"order", "done"} =>
           \A i \in 1..Len(e_df) :
               e_df[i].Family_ScientificName # None =>
                   e_df[i].Family_NorwegianName =
                       ResolvedLocalName(e_df[i].Family_ScientificName[1])
    /\ e_pc = "done" =>
           \A i \in 1..Len(e_df) :
               e_df[i].Order_ScientificName # None =>
                   e_df[i].Order_NorwegianName =
                       ResolvedLocalName(e_df[i].Order_ScientificName[1])

\* A step of the family or order sweep takes one distinct name or maps the
\* names; it does not go back to the species loop and leaves the columns of
\* the per-detection loop as they are
SweepStep ==
    e_pc \in {"family", "order"} =>
        /\ e_pc' \in {"family", "order", "done", "raised"}
        /\ Len(e_df') = Len(e_df)
        /\ \A i \in 1..Len(e_df) :
              \A c \in SpeciesLoopFields \cup OriginalFields : e_df'[i][c] = e_df[i][c]
        /\ \/ e_todo' = e_todo
           \/ e_todo # <<>> /\ e_todo' = Tail(e_todo)
           \/ e_todo = <<>> /\ e_todo' = UniquePresent(Column(e_df, "Order_ScientificName"), {})

\* C15: after the second pass all detections with the same family (order) name
\* carry the same Norwegian family (order) name, the one of the taxon that the
\* name resolves to, or none when it does not resolve; the family and order
\* names are resolved in sweeps of their own over the distinct names, which
\* never go back into the per-detection species loop.
C15_FamilyOrderSweep ==
    [](FamilyOrderNamesMapped) /\ [][SweepStep]_vars

\* C15 witness: a returned batch of two detections of different species in
\* the same family and order, both with the family's and the order's name
C15_Witness ==
    /\ e_pc = "done"
    /\ Len(e_df) = 2
    /\ e_df[1].scientific_name # e_df[2].scientific_name
    /\ \A i \in 1..2 :
          /\ e_df[i].Family_ScientificName = Some("F")
          /\ e_df[i].Family_NorwegianName = Some("finker")
          /\ e_df[i].Order_ScientificName = Some("O")
          /\ e_df[i].Order_NorwegianName = Some("spurvefugler")

-----------------------------------------------------------------------------
(* extract_timestamp_from_filename                                         *)

DigitChars == <<"0", "1", "2", "3", "4", "5", "6", "7", "8", "9">>

Digits == {DigitChars[i] : i \in 1..Len(DigitChars)}

IsDigit(c) == c \in Digits

DigitVal(c) == (CHOOSE i \in 1..Len(DigitChars) : DigitChars[i] = c) - 1

\* int(text) of a run of digits
RECURSIVE ToInt(_)
ToInt(ds) ==
    IF ds = <<>> THEN 0
    ELSE ToInt(SubSeq(ds, 1, Len(ds) - 1)) * 10 + DigitVal(ds[Len(ds)])

\* n copies of the regex element \d, written "d"
RECURSIVE Ds(_)
Ds(n) == IF n = 0 THEN <<>> ELSE <<"d">> \o Ds(n - 1)

\* A pattern of lines 25-42.  Every one of the eight regexes is a fixed-length
\* sequence of \d and literal characters: elems lists them ("d" is \d),
\* anchored is a leading ^, noDigitAfter is a trailing (?![\d]), groups are the
\* capture groups as <<offset, length>> within the match, and format is the
\* strptime format as a sequence of directives ("Y", "m", "d", "H", "M", "S")
\* and literal characters, or <<"unix">>.
Pattern(anchored, elems, noDigitAfter, groups, format) ==
    [anchored |-> anchored, elems |-> elems, noDigitAfter |-> noDigitAfter,
     groups |-> groups, format |-> format]

Patterns ==
    << \* 1: r"_(\d{8})_(\d{6})", "%Y%m%d_%H%M%S"
       Pattern(FALSE, <<"_">> \o Ds(8) \o <<"_">> \o Ds(6), FALSE,
               << <<2, 8>>, <<11, 6>> >>,
               <<"Y", "m", "d", "_", "H", "M", "S">>),
       \* 2: r"(\d{4}-\d{2}-\d{2})_(\d{2}-\d{2}-\d{2})", "%Y-%m-%d_%H-%M-%S"
       Pattern(FALSE, Ds(4) \o <<"-">> \o Ds(2) \o <<"-">> \o Ds(2) \o <<"_">>
                      \o Ds(2) \o <<"-">> \o Ds(2) \o <<"-">> \o Ds(2), FALSE,
               << <<1, 10>>, <<12, 8>> >>,
               <<"Y", "-", "m", "-", "d", "_", "H", "-", "M", "-", "S">>),
       \* 3: r"(\d{8})T(\d{6})", "%Y%m%dT%H%M%S"
       Pattern(FALSE, Ds(8) \o <<"T">> \o Ds(6), FALSE,
               << <<1, 8>>, <<10, 6>> >>,
               <<"Y", "m", "d", "T", "H", "M", "S">>),
       \* 4: r"^(\d{8})_(\d{6})", "%Y%m%d_%H%M%S"
       Pattern(TRUE, Ds(8) \o <<"_">> \o Ds(6), FALSE,
               << <<1, 8>>, <<10, 6>> >>,
               <<"Y", "m", "d", "_", "H", "M", "S">>),
       \* 5: r"(\d{4}_\d{2}_\d{2})_(\d{2}_\d{2}_\d{2})", "%Y_%m_%d_%H_%M_%S"
       Pattern(FALSE, Ds(4) \o <<"_">> \o Ds(2) \o <<"_">> \o Ds(2) \o <<"_">>
                      \o Ds(2) \o <<"_">> \o Ds(2) \o <<"_">> \o Ds(2), FALSE,
               << <<1, 10>>, <<12, 8>> >>,
               <<"Y", "_", "m", "_", "d", "_", "H", "_", "M", "_", "S">>),
       \* 6: r"(\d{4}-\d{2}-\d{2}-\d{2}-\d{2}-\d{2})", "%Y-%m-%d-%H-%M-%S"
       Pattern(FALSE, Ds(4) \o <<"-">> \o Ds(2) \o <<"-">> \o Ds(2) \o <<"-">>
                      \o Ds(2) \o <<"-">> \o Ds(2) \o <<"-">> \o Ds(2), FALSE,
               << <<1, 19>> >>,
               <<"Y", "-", "m", "-", "d", "-", "H", "-", "M", "-", "S">>),
       \* 7: r"_(\d{8})(\d{4})(?![\d])", "%Y%m%d%H%M"
       Pattern(FALSE, <<"_">> \o Ds(12), TRUE,
               << <<2, 8>>, <<10, 4>> >>,
               <<"Y", "m", "d", "H", "M">>),
       \* 8: r"(\d{10})", "unix"
       Pattern(FALSE, Ds(10), FALSE,
               << <<1, 10>> >>,
               <<"unix">>) >>

ElemMatches(e, c) == IF e = "d" THEN IsDigit(c) ELSE e = c

\* The regex matches the text at position i
MatchAt(s, i, pat) ==
    /\ i >= 1
    /\ i + Len(pat.elems) - 1 <= Len(s)
    /\ \A k \in 1..Len(pat.elems) : ElemMatches(pat.elems[k], s[i + k - 1])
    /\ pat.noDigitAfter =>
          (i + Len(pat.elems) > Len(s) \/ ~IsDigit(s[i + Len(pat.elems)]))

\* re.search(pattern, filename): the start of the leftmost match, 0 for no
\* match; an anchored pattern is tried at the start only
RECURSIVE SearchFrom(_, _, _)
SearchFrom(s, pat, i) ==
    IF i + Len(pat.elems) - 1 > Len(s) THEN 0
    ELSE IF MatchAt(s, i, pat) THEN i
    ELSE IF pat.anchored THEN 0
    ELSE SearchFrom(s, pat, i + 1)

Search(s, pat) == SearchFrom(s, pat, 1)

\* match.group(g) of the match that starts at position at
Group(s, pat, at, g) ==
    SubSeq(s, at + pat.groups[g][1] - 1,
              at + pat.groups[g][1] + pat.groups[g][2] - 2)

\* A datetime
Civil(y, mo, d, h, mi, sec) ==
    [year |-> y, month |-> mo, day |-> d, hour |-> h, minute |-> mi,
     second |-> sec]

IsLeap(y) == (y % 4 = 0 /\ y % 100 # 0) \/ y % 400 = 0

DaysInMonth(y, mo) ==
    IF mo = 2 THEN (IF IsLeap(y) THEN 29 ELSE 28)
    ELSE IF mo \in {4, 6, 9, 11} THEN 30 ELSE 31

\* datetime(...) accepts the fields
ValidCivil(c) ==
    /\ c.year >= 1
    /\ c.month \in 1..12
    /\ c.day >= 1 /\ c.day <= DaysInMonth(c.year, c.month)
    /\ c.hour \in 0..23
    /\ c.minute \in 0..59
    /\ c.second \in 0..59

FieldWidth(directive) == IF directive = "Y" THEN 4 ELSE 2

Directives == {"Y", "m", "d", "H", "M", "S"}

\* datetime.strptime(text, format), read left to right: a directive takes its
\* digits, a literal its own character; acc holds the fields read so far.  The
\* texts handed over here hold only full-width fields (the regexes capture
\* \d{4} and \d{2} runs, or \d{8}, \d{6} and \d{4} runs next to a separator),
\* so strptime's one-digit alternatives can never apply.  The result is None
\* when strptime raises ValueError.
RECURSIVE StrptimeFrom(_, _, _)
StrptimeFrom(text, format, acc) ==
    IF format = <<>>
    THEN IF text = <<>> /\ ValidCivil(acc) THEN Some(acc) ELSE None
    ELSE LET f == Head(format)
         IN  IF f \in Directives
             THEN LET w == FieldWidth(f)
                  IN  IF Len(text) >= w /\ \A k \in 1..w : IsDigit(text[k])
                      THEN LET v == ToInt(SubSeq(text, 1, w))
                               rest == SubSeq(text, w + 1, Len(text))
                               acc2 ==
                                 CASE f = "Y" -> [acc EXCEPT !.year = v]
                                   [] f = "m" -> [acc EXCEPT !.month = v]
                                   [] f = "d" -> [acc EXCEPT !.day = v]
                                   [] f = "H" -> [acc EXCEPT !.hour = v]
                                   [] f = "M" -> [acc EXCEPT !.minute = v]
                                   [] OTHER -> [acc EXCEPT !.second = v]
                           IN  StrptimeFrom(rest, Tail(format), acc2)
                      ELSE None
             ELSE IF text # <<>> /\ Head(text) = f
                  THEN StrptimeFrom(Tail(text), Tail(format), acc)
                  ELSE None

\* Fields a format does not name default to 1900-01-01 00:00:00
Strptime(text, format) == StrptimeFrom(text, format, Civil(1900, 1, 1, 0, 0, 0))

\* The proleptic Gregorian date of a day number counted from 1970-01-01
CivilFromDays(z0) ==
    LET z == z0 + 719468
        era == z \div 146097
        doe == z - era * 146097
        yoe == (doe - doe \div 1460 + doe \div 36524 - doe \div 146096) \div 365
        doy == doe - (365 * yoe + yoe \div 4 - yoe \div 100)
        mp == (5 * doy + 2) \div 153
        d == doy - (153 * mp + 2) \div 5 + 1
        mo == IF mp < 10 THEN mp + 3 ELSE mp - 9
        y == yoe + era * 400 + (IF mo <= 2 THEN 1 ELSE 0)
    IN  [year |-> y, month |-> mo, day |-> d]

\* datetime.fromtimestamp(n) in a zone tz seconds east of UTC
FromTimestamp(n, tz) ==
    LET t == n + tz
        date == CivilFromDays(t \div 86400)
        r == t % 86400
    IN  Civil(date.year, date.month, date.day,
              r \div 3600, (r % 3600) \div 60, r % 60)

\* Lines 48-58 for the match of pattern pat at position at: the datetime, or
\* None when int / strptime / fromtimestamp raises
ParseMatch(s, pat, at, tz) ==
    IF pat.format = <<"unix">>
    THEN Some(FromTimestamp(ToInt(Group(s, pat, at, 1)), tz))
    ELSE IF Len(pat.groups) = 2
         THEN Strptime(Group(s, pat, at, 1) \o <<"_">> \o Group(s, pat, at, 2),
                       pat.format)
         ELSE Strptime(Group(s, pat, at, 1), pat.format)

NoMatch == [pattern |-> 0, datetime |-> None]

\* The chain that gives up at the first pattern that matches, parsed or not
RECURSIVE TryPatternsStopAtMatch(_, _, _)
TryPatternsStopAtMatch(s, k, tz) ==
    IF k > Len(Patterns) THEN NoMatch
    ELSE LET at == Search(s, Patterns[k])
         IN  IF at = 0 THEN TryPatternsStopAtMatch(s, k + 1, tz)
             ELSE LET dt == ParseMatch(s, Patterns[k], at, tz)
                  IN  IF dt # None THEN [pattern |-> k, datetime |-> dt]
                      ELSE NoMatch

\* The loop of lines 44-64 from pattern k on: the first pattern that matches
\* and parses gives the result; an exception moves on to the next pattern
RECURSIVE TryPatterns(_, _, _)
TryPatterns(s, k, tz) ==
    IF k > Len(Patterns) THEN NoMatch
    ELSE LET at == Search(s, Patterns[k])
         IN  IF at = 0 THEN TryPatterns(s, k + 1, tz)
             ELSE LET dt == ParseMatch(s, Patterns[k], at, tz)
                  IN  IF dt # None THEN [pattern |-> k, datetime |-> dt]
                      ELSE TryPatterns(s, k + 1, tz)

\* The call: .datetime is the value returned, .pattern the pattern it came from
extract_timestamp_from_filename(filename, tz) == TryPatterns(filename, 1, tz)

\* ---- the file names extract_timestamp_from_filename is called with

MaxTokens == 3

RECURSIVE Flatten(_)
Flatten(parts) == IF parts = <<>> THEN <<>> ELSE Head(parts) \o Flatten(Tail(parts))

Underscore == <<"_">>
Dash == <<"-">>
LetterT == <<"T">>
WavSuffix == <<".", "w", "a", "v">>
Date8 == <<"2", "0", "2", "5", "0", "5", "2", "1">>
UDate8 == Underscore \o Date8
\* month 13: the regexes accept it, strptime does not
UDate8Month13 == <<"_", "2", "0", "2", "5", "1", "3", "2", "1">>
Time6 == <<"1", "9", "0", "0", "0", "2">>
Time4 == <<"1", "9", "0", "0">>
DashDate == <<"2", "0", "2", "5", "-", "0", "5", "-", "2", "1">>
DashTime == <<"1", "9", "-", "0", "0", "-", "0", "2">>
UnderDate == <<"2", "0", "2", "5", "_", "0", "5", "_", "2", "1">>
UnderTime == <<"1", "9", "_", "0", "0", "_", "0", "2">>

Tokens ==
    {Underscore, Dash, LetterT, Date8, UDate8, UDate8Month13, Time6, Time4,
     DashDate, DashTime, UnderDate, UnderTime}

\* rec_2MA06968_20250521_190002.wav
ExampleFile ==
    <<"r", "e", "c", "_", "2", "M", "A", "0", "6", "9", "6", "8">>
    \o UDate8 \o Underscore \o Time6 \o WavSuffix

\* no_timestamp_here.wav
NoTimestampFile ==
    <<"n", "o", "_", "t", "i", "m", "e", "s", "t", "a", "m", "p", "_",
      "h", "e", "r", "e">> \o WavSuffix

\* rec_202505211900.wav
NoSecondsFile == <<"r", "e", "c">> \o UDate8 \o Time4 \o WavSuffix

Filenames ==
    {Flatten(ts) : ts \in SeqsBetween(Tokens, 1, MaxTokens)}
    \cup {ExampleFile, NoTimestampFile, NoSecondsFile}

\* The local zone of the machine, in seconds east of UTC: UTC and Norwegian
\* summer time
TzOffsets == {0, 7200}

ExtractIdle ==
    /\ x_filename = <<>>
    /\ x_tz = 0
    /\ x_out = None
    /\ x_pattern = 0
    /\ x_pc = "idle"

ExtractInit ==
    /\ x_filename \in Filenames
    /\ x_tz \in TzOffsets
    /\ x_out = None
    /\ x_pattern = 0
    /\ x_pc = "call"

\* One call of extract_timestamp_from_filename; x_pattern records which
\* pattern gave the result (0 for None)
ExtractCall ==
    /\ x_pc = "call"
    /\ LET r == extract_timestamp_from_filename(x_filename, x_tz)
       IN  /\ x_out' = r.datetime
           /\ x_pattern' = r.pattern
    /\ x_pc' = "returned"
    /\ UNCHANGED <<x_filename, x_tz>>

\* ---- claims about extract_timestamp_from_filename

\* Pattern k matches the file name
PatternMatches(k) == Search(x_filename, Patterns[k]) # 0

\* What pattern k makes of its match in the file name
PatternParse(k) ==
    ParseMatch(x_filename, Patterns[k], Search(x_filename, Patterns[k]), x_tz)

NoSecondsDatetime(at) ==
    LET run == SubSeq(x_filename, at + 1, at + 12)
    IN  Civil(ToInt(SubSeq(run, 1, 4)), ToInt(SubSeq(run, 5, 6)),
              ToInt(SubSeq(run, 7, 8)), ToInt(SubSeq(run, 9, 10)),
              ToInt(SubSeq(run, 11, 12)), 0)

\* C7: a file name that holds _YYYYMMDDHHMM (twelve digits of a real date and
\* time, no digit after them) and matches no earlier pattern gives that date
\* and time with zero seconds.
C7_NoSecondsVariant ==
    (/\ x_pc = "returned"
     /\ PatternMatches(7)
     /\ ValidCivil(NoSecondsDatetime(Search(x_filename, Patterns[7])))
     /\ \A k \in 1..6 : ~PatternMatches(k))
    => x_out = Some(NoSecondsDatetime(Search(x_filename, Patterns[7])))

\* The maximal run of digits around position at has exactly n digits
RunOfExactly(at, n) ==
    /\ at >= 1 /\ at + n - 1 <= Len(x_filename)
    /\ \A k \in at..(at + n - 1) : IsDigit(x_filename[k])
    /\ at = 1 \/ ~IsDigit(x_filename[at - 1])
    /\ at + n > Len(x_filename) \/ ~IsDigit(x_filename[at + n])

\* C8: the epoch pattern gives the result only when no stricter pattern
\* applies to the file name and the digits it reads are a run of exactly ten.
C8_EpochNeverShadows ==
    (x_pc = "returned" /\ x_pattern = 8) =>
        /\ \A k \in 1..7 : ~PatternMatches(k)
        /\ RunOfExactly(Search(x_filename, Patterns[8]), 10)

-----------------------------------------------------------------------------
(* add_real_timestamps, generate_temporal_summary and the statistics report *)

\* The outcome of a step that can raise: error names the exception ("" for
\* none), value is what the step returns
Ok(v) == [error |-> "", value |-> v]
Raise(e) == [error |-> e, value |-> <<>>]

\* Series.value_counts() of a column: the present values with their counts
ValueCounts(df, col) ==
    [v \in {df[i][col][1] : i \in {j \in DOMAIN df : df[j][col] # None}} |->
        Cardinality({i \in DOMAIN df : df[i][col] = Some(v)})]

\* One row of the enriched detections as the report reads them
EnrichedRow(fname, st, name, status) ==
    [filename |-> fname, start_time |-> st, Species_NorwegianName |-> name,
     Redlist_Status |-> status]

\* The days from 1970-01-01 to a civil date
DaysFromCivil(y0, mo, d) ==
    LET y == IF mo <= 2 THEN y0 - 1 ELSE y0
        era == y \div 400
        yoe == y - era * 400
        mp == IF mo > 2 THEN mo - 3 ELSE mo + 9
        doy == (153 * mp + 2) \div 5 + d - 1
        doe == yoe * 365 + yoe \div 4 - yoe \div 100 + doy
    IN  era * 146097 + doe - 719468

\* recording_start_datetime + timedelta(seconds = start_time) (lines 83-88),
\* as the seconds from 1970-01-01 00:00 of the naive datetime; missing when
\* the file name gives no timestamp
DetectionDatetime(start, st) ==
    IF start = None THEN None
    ELSE Some(DaysFromCivil(start[1].year, start[1].month, start[1].day) * 86400
              + start[1].hour * 3600 + start[1].minute * 60 + start[1].second
              + st)

\* Lines 80-88 for one row
StampRow(row, start) ==
    [filename |-> row.filename, start_time |-> row.start_time,
     Species_NorwegianName |-> row.Species_NorwegianName,
     Redlist_Status |-> row.Redlist_Status,
     recording_start_datetime |-> start,
     detection_datetime |-> DetectionDatetime(start, row.start_time)]

\* .dt.hour of a datetime column cell (line 98): NaN for NaT
DtHour(dt) == IF dt = None THEN None ELSE Some((dt[1] \div 3600) % 24)

\* strftime("%H:%M")
HourMinute(t) == <<(t \div 3600) % 24, (t \div 60) % 60>>

\* Series.between(left, right): both ends belong to the interval, and NaN is
\* in no interval
Between(x, left, right) == x # None /\ left <= x[1] /\ x[1] <= right

\* Lines 98-101 for one row: hour_of_day and the two window flags
TimeFeatures(row) ==
    [hour_of_day |-> DtHour(row.detection_datetime),
     is_dawn_chorus |-> Between(DtHour(row.detection_datetime), 4, 8),
     is_evening_activity |-> Between(DtHour(row.detection_datetime), 17, 21)]
    @@ row

TimedRow(row, tz) ==
    StampRow(row, extract_timestamp_from_filename(row.filename, tz).datetime)

\* add_real_timestamps.  When no file name of the batch gives a timestamp,
\* detection_datetime is a column of None objects and .dt (line 98) raises
\* AttributeError; otherwise it is a datetime column with NaT for the rows
\* that gave none.
DtAccessor(rows) ==
    IF \A i \in DOMAIN rows : rows[i].detection_datetime = None
    THEN Raise("AttributeError")
    ELSE Ok([i \in DOMAIN rows |-> TimeFeatures(rows[i])])

add_real_timestamps(df, tz) == DtAccessor([i \in DOMAIN df |-> TimedRow(df[i], tz)])

\* hour_of_day holds NaN, which makes it a column of floats
HourIsFloat(timed) == \E i \in DOMAIN timed : timed[i].hour_of_day = None

SpeciesOf(df) ==
    {df[i].Species_NorwegianName[1] :
        i \in {j \in DOMAIN df : df[j].Species_NorwegianName # None}}

RowsOf(df, name) == {i \in DOMAIN df : df[i].Species_NorwegianName = Some(name)}

\* analyze_daily_activity_patterns: hourly_activity, and the species counts
\* of the rows flagged as dawn chorus and as evening activity (lines 116-125)
analyze_daily_activity_patterns(timed) ==
    LET IsDawn(row) == row.is_dawn_chorus
        IsEvening(row) == row.is_evening_activity
    IN  [hourly_activity |-> ValueCounts(timed, "hour_of_day"),
         dawn_chorus_species |->
             ValueCounts(SelectSeq(timed, IsDawn), "Species_NorwegianName"),
         evening_activity_species |->
             ValueCounts(SelectSeq(timed, IsEvening), "Species_NorwegianName")]

\* The variant that leaves the times in the order of the rows
RowOrder(times) == times

\* sort_values on a column of times
RECURSIVE SortTimes(_)
SortTimes(times) ==
    IF times = <<>> THEN <<>>
    ELSE LET least == Min({times[i] : i \in DOMAIN times})
             at == Min({i \in DOMAIN times : times[i] = least})
         IN  <<least>> \o SortTimes(SubSeq(times, 1, at - 1)
                                    \o SubSeq(times, at + 1, Len(times)))

\* species_data sorted by detection_datetime, then detection_datetime.dropna()
\* (lines 150-156, 177)
DetectionTimes(timed, species) ==
    LET Timed(row) == /\ row.Species_NorwegianName = Some(species)
                      /\ row.detection_datetime # None
        rows == SelectSeq(timed, Timed)
    IN  SortTimes([i \in DOMAIN rows |-> rows[i].detection_datetime[1]])

\* How many of the times fall in hour h
CountInHour(times, h) ==
    Cardinality({i \in DOMAIN times : DtHour(Some(times[i])) = Some(h)})

MaxInHour(times) ==
    CHOOSE n \in {CountInHour(times, h) : h \in 0..23} :
        \A h \in 0..23 : CountInHour(times, h) <= n

\* hour_of_day.value_counts().idxmax() on the time-sorted rows (lines
\* 165-167): value_counts keeps hours of equal count in the order of their
\* first row, and idxmax takes the first hour with the highest count
PeakHour(times) ==
    DtHour(Some(times[Min({i \in DOMAIN times :
        CountInHour(times, DtHour(Some(times[i]))[1]) = MaxInHour(times)})]))[1]

\* Lines 160-171: the text "HH:00-HH:00 (n detections)" as its three numbers
PeakActivityWindow(times) ==
    IF times = <<>> THEN None
    ELSE Some([from_hour |-> PeakHour(times), to_hour |-> PeakHour(times) + 1,
               detections |-> MaxInHour(times)])

\* A number of seconds as minutes: seconds / 60, kept as the exact quotient
\* (the code rounds it to one decimal where it stores or prints it)
Minutes(seconds, per) == [num |-> seconds, den |-> 60 * per]

\* Lines 173-201: active_period, the text "HH:MM-HH:MM (..h ..m)" or
\* "HH:MM (single detection)" as its parts, and active_duration in minutes
ActivePeriod(times) ==
    IF times = <<>> THEN None
    ELSE IF Len(times) > 1
    THEN Some([kind |-> "range",
               first_time |-> HourMinute(times[1]),
               last_time |-> HourMinute(times[Len(times)]),
               hours |-> (times[Len(times)] - times[1]) \div 3600,
               minutes |-> ((times[Len(times)] - times[1]) % 3600) \div 60])
    ELSE Some([kind |-> "single detection",
               first_time |-> HourMinute(times[1]),
               last_time |-> <<>>, hours |-> 0, minutes |-> 0])

ActiveDuration(times) ==
    IF times = <<>> THEN None
    ELSE IF Len(times) > 1 THEN Some(Minutes(times[Len(times)] - times[1], 1))
    ELSE Some(Minutes(0, 1))

\* detection_times.diff().dt.total_seconds().dropna() (line 210)
TimeDiffs(times) == [i \in 1..(Len(times) - 1) |-> times[i + 1] - times[i]]

RECURSIVE SumSeq(_)
SumSeq(xs) == IF xs = <<>> THEN 0 ELSE Head(xs) + SumSeq(Tail(xs))

\* Lines 213-224: avg_gap_minutes = mean of the gaps in minutes, compared
\* with 5 and with 15
PatternType(gaps) ==
    IF SumSeq(gaps) < 5 * 60 * Len(gaps) THEN "Clustered"
    ELSE IF SumSeq(gaps) < 15 * 60 * Len(gaps) THEN "Regular"
    ELSE "Sporadic"

\* Lines 203-236: call_pattern, as the word its text begins with
CallPattern(times) ==
    IF Len(times) > 1 THEN Some(PatternType(TimeDiffs(times)))
    ELSE IF Len(times) = 1 THEN Some("Single call")
    ELSE None

\* Lines 229-234: avg, min and max of the gaps in minutes (std is left out)
GapStatistics(times) ==
    IF Len(times) > 1
    THEN Some([avg |-> Minutes(SumSeq(TimeDiffs(times)), Len(times) - 1),
               min |-> Minutes(Min({TimeDiffs(times)[i] : i \in 1..(Len(times) - 1)}), 1),
               max |-> Minutes(-Min({-TimeDiffs(times)[i] : i \in 1..(Len(times) - 1)}), 1)])
    ELSE None

\* Lines 238-245: the entry of one species
SpeciesPattern(count, times) ==
    [detection_count |-> count,
     peak_activity_window |-> PeakActivityWindow(times),
     active_period |-> ActivePeriod(times),
     active_duration_minutes |-> ActiveDuration(times),
     call_pattern |-> CallPattern(times),
     gap_statistics |-> GapStatistics(times)]

\* analyze_species_temporal_patterns: one entry per named species.  The peak
\* hour of a species that has an hour is formatted with {peak_hour:02d}
\* (line 170), which raises ValueError for a float.
analyze_species_temporal_patterns(timed) ==
    IF /\ HourIsFloat(timed)
       /\ \E i \in DOMAIN timed : /\ timed[i].Species_NorwegianName # None
                                  /\ timed[i].hour_of_day # None
    THEN Raise("ValueError")
    ELSE Ok([s \in SpeciesOf(timed) |->
                SpeciesPattern(Cardinality(RowsOf(timed, s)),
                               DetectionTimes(timed, s))])

threatened_statuses == {"CR", "EN", "VU", "NT"}

IsThreatened(row) ==
    /\ row.Redlist_Status # None
    /\ row.Redlist_Status[1] \in threatened_statuses

\* analyze_rare_species_timing: detection_count per threatened species.  The
\* loop of line 298 also visits NaN, whose selection is empty, so that
\* .iloc[0] (line 300) raises IndexError; and .mode().iloc[0] (line 311)
\* raises IndexError for a species none of whose rows has an hour.
analyze_rare_species_timing(timed) ==
    LET rare == {i \in DOMAIN timed : IsThreatened(timed[i])}
        names == {timed[i].Species_NorwegianName[1] :
                     i \in {j \in rare : timed[j].Species_NorwegianName # None}}
    IN  IF \E i \in rare : timed[i].Species_NorwegianName = None
        THEN Raise("IndexError")
        ELSE IF \E s \in names :
                   \A i \in rare \cap RowsOf(timed, s) : timed[i].hour_of_day = None
        THEN Raise("IndexError")
        ELSE Ok([s \in names |-> Cardinality(rare \cap RowsOf(timed, s))])

\* generate_temporal_summary: the analyses of lines 334-348 on the outcome of
\* add_real_timestamps
TemporalResults(df, timed) ==
    LET species == analyze_species_temporal_patterns(timed.value)
        rare == analyze_rare_species_timing(timed.value)
    IN  IF timed.error # "" THEN Raise(timed.error)
        ELSE IF species.error # "" THEN Raise(species.error)
        ELSE IF rare.error # "" THEN Raise(rare.error)
        ELSE Ok([daily_patterns |-> analyze_daily_activity_patterns(timed.value),
                 species_patterns |-> species.value,
                 rare_species_timing |-> rare.value,
                 hour_of_day |-> [i \in DOMAIN df |-> timed.value[i].hour_of_day],
                 total_detections |-> Len(df),
                 successfully_parsed |->
                     Cardinality({i \in DOMAIN df :
                         timed.value[i].recording_start_datetime # None})])

generate_temporal_summary(df, tz) == TemporalResults(df, add_real_timestamps(df, tz))

\* The empty dict {}
NoStats ==
    [empty |-> TRUE, total_observations |-> 0,
     observations_per_species |-> EmptyMap, unique_species_count |-> 0,
     confidence_distribution |-> <<>>,
     temporal_analysis |-> <<>>]

\* "confidence" in df.columns
HasColumn(df, col) == \A i \in DOMAIN df : col \in DOMAIN df[i]

\* Confidence scores are hundredths: 0.9 is 90.  The four selections of lines
\* 63-66.
VeryHighBand(df) ==
    LET Sel(row) == row.confidence >= 90 IN SelectSeq(df, Sel)

\* The variant whose upper end is closed
HighBandClosed(df) ==
    LET Sel(row) == row.confidence >= 70 /\ row.confidence <= 90
    IN  SelectSeq(df, Sel)

HighBand(df) ==
    LET Sel(row) == row.confidence >= 70 /\ row.confidence < 90
    IN  SelectSeq(df, Sel)

MediumBand(df) ==
    LET Sel(row) == row.confidence >= 50 /\ row.confidence < 70
    IN  SelectSeq(df, Sel)

LowBand(df) ==
    LET Sel(row) == row.confidence < 50 IN SelectSeq(df, Sel)

\* round(x, 1) of the quotient num / den, in tenths: the nearest tenth, and
\* the even one of two equally near
RoundTenths(num, den) ==
    LET twice == (20 * num) \div den
        exact == (20 * num) % den = 0
        down == twice \div 2
    IN  IF twice % 2 = 0 THEN down
        ELSE IF ~exact THEN down + 1
        ELSE IF down % 2 = 0 THEN down ELSE down + 1

\* {"count": len(band), "percentage": round((len(band) / len(df)) * 100, 1)}
BandEntry(band, df) ==
    [count |-> Len(band), percentage |-> RoundTenths(Len(band) * 100, Len(df))]

\* Lines 62-74: stats["confidence_distribution"]
ConfidenceDistribution(df) ==
    [very_high |-> BandEntry(VeryHighBand(df), df),
     high |-> BandEntry(HighBand(df), df),
     medium |-> BandEntry(MediumBand(df), df),
     low |-> BandEntry(LowBand(df), df)]

\* Lines 38-74: the confidence statistics, when the frame has the column
ConfidenceStatistics(df) ==
    IF HasColumn(df, "confidence") THEN Some(ConfidenceDistribution(df))
    ELSE None

\* calculate_summary_statistics: the counts of lines 26-36, the confidence
\* bands of lines 62-74 and the temporal analysis of lines 119-120
Statistics(df, temporal) ==
    IF temporal.error # "" THEN Raise(temporal.error)
    ELSE Ok([empty |-> FALSE,
             total_observations |-> Len(df),
             observations_per_species |-> ValueCounts(df, "Species_NorwegianName"),
             unique_species_count |-> Cardinality(SpeciesOf(df)),
             confidence_distribution |-> ConfidenceStatistics(df),
             temporal_analysis |-> <<temporal.value>>])

calculate_summary_statistics(df, tz) ==
    IF df = <<>> THEN Ok(NoStats)
    ELSE Statistics(df, generate_temporal_summary(df, tz))

\* generate_statistics_report: any exception is logged and {} returned
Logged(stats) ==
    IF stats.error # "" THEN [stats |-> NoStats, logged |-> stats.error]
    ELSE [stats |-> stats.value, logged |-> ""]

generate_statistics_report(df, tz) == Logged(calculate_summary_statistics(df, tz))

\* The hour a start_time offset falls in when taken as seconds since midnight:
\* the hour bucket of (start_time / 3600) % 24
StartTimeHour(st) == (st \div 3600) % 24

\* create_joypy_plot up to the hour_of_day it plots (lines 18-32); an
\* exception of add_real_timestamps leaves the function and is logged by
\* run_full_analysis (lines 419-420)
PlotHours(df, timed) ==
    IF timed.error # "" THEN [outcome |-> "error", hour_of_day |-> <<>>]
    ELSE IF \A i \in DOMAIN df : timed.value[i].hour_of_day = None
    THEN [outcome |-> "fallback",
          hour_of_day |->
              [i \in DOMAIN df |-> Some(StartTimeHour(df[i].start_time))]]
    ELSE [outcome |-> "hours",
          hour_of_day |-> [i \in DOMAIN df |-> timed.value[i].hour_of_day]]

create_joypy_plot(df, tz) ==
    IF df = <<>> THEN [outcome |-> "no data", hour_of_day |-> <<>>]
    ELSE PlotHours(df, add_real_timestamps(df, tz))

\* ---- the batches the plot and the report are made from

MaxRows == 2

\* 20250521_055930.wav
MorningFile ==
    Date8 \o Underscore \o <<"0", "5", "5", "9", "3", "0">> \o WavSuffix

TemporalFilenames == {ExampleFile, MorningFile, NoTimestampFile}

StartTimes == {45, 3700}

\* Species_NorwegianName and Redlist_Status as the enrichment leaves them: a
\* named species with its status, and a taxon without a Norwegian name, with
\* and without a status
NamedStatuses ==
    {<<Some("rodstrupe"), Some("LC")>>, <<Some("vipe"), Some("VU")>>,
     <<None, Some("VU")>>, <<None, None>>}

EnrichedRows ==
    {EnrichedRow(f, st, ns[1], ns[2]) :
        f \in TemporalFilenames, st \in StartTimes, ns \in NamedStatuses}

TemporalBatches == SeqsBetween(EnrichedRows, 1, MaxRows)

NoPlot == [outcome |-> "", hour_of_day |-> <<>>]

NoReport == [stats |-> NoStats, logged |-> ""]

TemporalIdle ==
    /\ t_df = <<>>
    /\ t_tz = 0
    /\ t_plot = NoPlot
    /\ t_report = NoReport
    /\ t_pc = "idle"

\* run_full_analysis after the enriched detections are saved (line 394)
TemporalInit ==
    /\ t_df \in TemporalBatches
    /\ t_tz \in TzOffsets
    /\ t_plot = NoPlot
    /\ t_report = NoReport
    /\ t_pc = "plot"

\* run_full_analysis lines 398-420
CreateJoypyPlot ==
    /\ t_pc = "plot"
    /\ t_plot' = create_joypy_plot(t_df, t_tz)
    /\ t_pc' = "statistics"
    /\ UNCHANGED <<t_df, t_tz, t_report>>

\* run_full_analysis lines 441-443
GenerateStatisticsReport ==
    /\ t_pc = "statistics"
    /\ t_report' = generate_statistics_report(t_df, t_tz)
    /\ t_pc' = "done"
    /\ UNCHANGED <<t_df, t_tz, t_plot>>

\* ---- claims about unparsed timestamps

\* The file name of row i gives no timestamp
Unparsed(i) ==
    extract_timestamp_from_filename(t_df[i].filename, t_tz).datetime = None

\* C9: a detection whose file name gives no timestamp does not fail the
\* report, and the temporal analysis gives it the hour bucket of its
\* start_time taken as seconds since midnight, modulo 24 hours.
C9_FallbackHourBucket ==
    t_pc = "done" =>
        \A i \in DOMAIN t_df :
            Unparsed(i) =>
                /\ ~t_report.stats.empty
                /\ t_report.stats.temporal_analysis[1].hour_of_day[i]
                       = Some(StartTimeHour(t_df[i].start_time))

\* C10: for a batch in which some or all file names give no timestamp the
\* report is still produced, and its total count and its per-species counts
\* include the detections of those files.
C10_UnparsedStillCounted ==
    (t_pc = "done" /\ \E i \in DOMAIN t_df : Unparsed(i)) =>
        /\ ~t_report.stats.empty
        /\ t_report.stats.total_observations = Len(t_df)
        /\ \A s \in SpeciesOf(t_df) :
               /\ s \in DOMAIN t_report.stats.observations_per_species
               /\ t_report.stats.observations_per_species[s]
                      = Cardinality(RowsOf(t_df, s))

-----------------------------------------------------------------------------
(* SpecLocalName: get_norwegian_popular_name on every bounded list          *)

MaxPop == 3

BokmalUpper == <<"N", "B", "-", "N", "O">>
Nynorsk == <<"n", "n">>
NoLanguage == <<>>

LanguageTags == {Bokmal, BokmalUpper, Nynorsk, English, NoLanguage}

\* The entries of a list: objects with a language tag, a preferred flag and
\* a name still to be given, Bokmal entries without a "Name", and an element
\* that is no object
PopShapes ==
    {PopEntry(TRUE, lang, pref, Some(0)) : lang \in LanguageTags, pref \in BOOLEAN}
    \cup {PopEntry(TRUE, Bokmal, pref, None) : pref \in BOOLEAN}
    \cup {PopEntry(FALSE, NoLanguage, FALSE, None)}

\* Entry i of a list is named after its place, so that the entry a name came
\* from can be told
NamedShapes(shapes) ==
    [i \in DOMAIN shapes |->
        IF shapes[i].Name # None THEN [shapes[i] EXCEPT !.Name = Some(i)]
        ELSE shapes[i]]

PopLists ==
    {PopList(TRUE, NamedShapes(shapes)) : shapes \in SeqsBetween(PopShapes, 0, MaxPop)}
    \cup {NoPopularNames}

LocalNameIdle ==
    /\ n_pop = NoPopularNames
    /\ n_out = None
    /\ n_pc = "idle"

LocalNameInit ==
    /\ n_pop \in PopLists
    /\ n_out = None
    /\ n_pc = "call"

LocalNameCall ==
    /\ n_pc = "call"
    /\ n_out' = get_norwegian_popular_name(n_pop)
    /\ n_pc' = "returned"
    /\ UNCHANGED n_pop

\* The places of the Bokmal entries of the list, and of the preferred ones
BokmalPlaces ==
    {i \in DOMAIN n_pop.items :
        n_pop.items[i].wf /\ StartsWithNb(n_pop.items[i].language)}

PreferredPlaces == {i \in BokmalPlaces : n_pop.items[i].Preffered}

\* C11: the result is the name of the first preferred Bokmal entry, also when
\* a Bokmal entry that is not preferred stands before it; without a preferred
\* one, the name of the first Bokmal entry; without any Bokmal entry, None;
\* and None for an empty list and for a value that is no list.
C11_TwoPassPreference ==
    n_pc = "returned" =>
        n_out = IF ~n_pop.isList \/ n_pop.items = <<>> THEN None
                ELSE IF PreferredPlaces # {}
                     THEN n_pop.items[Min(PreferredPlaces)].Name
                ELSE IF BokmalPlaces # {}
                     THEN n_pop.items[Min(BokmalPlaces)].Name
                ELSE None

\* A named Bokmal entry that is not preferred stands before the preferred one
\* whose name is returned
C11_Witness ==
    /\ n_pc = "returned"
    /\ PreferredPlaces # {}
    /\ Min(BokmalPlaces) < Min(PreferredPlaces)
    /\ n_pop.items[Min(BokmalPlaces)].Name # None
    /\ n_out = Some(Min(PreferredPlaces))

-----------------------------------------------------------------------------
(* SpecPipeline: run_full_analysis from the classifier's detections on      *)

MaxBatch == 2

\* A detection as the pipeline stages see it: whether it has the key
\* "scientific_name" at all, and the name under it
RawDetection(hasKey, name) == [hasKey |-> hasKey, scientific_name |-> name]

RawDetections ==
    {RawDetection(FALSE, None), RawDetection(TRUE, None)}
    \cup {RawDetection(TRUE, Some(n)) : n \in SpeciesNames}

\* The DataFrame as the stages see it: absent (None), or its column
\* "scientific_name" (present for a key that some detection has), whether it
\* has the enrichment columns, and its number of rows
NoFrame == [absent |-> TRUE, hasScientificName |-> FALSE,
            hasEnrichmentColumns |-> FALSE, names |-> <<>>]

Frame(hasSci, hasCols, names) ==
    [absent |-> FALSE, hasScientificName |-> hasSci,
     hasEnrichmentColumns |-> hasCols, names |-> names]

\* initialize_dataframe returning an empty DataFrame for an empty list
InitialFrameNeverAbsent(dets) ==
    Frame(\E i \in DOMAIN dets : dets[i].hasKey,
          \E i \in DOMAIN dets : dets[i].hasKey,
          [i \in DOMAIN dets |-> dets[i].scientific_name])

\* initialize_dataframe, lines 58-87: None for an empty list; without the
\* column "scientific_name" the DataFrame is returned as it is (line 71), with
\* it the enrichment columns are added
InitialFrame(dets) ==
    IF dets = <<>> THEN NoFrame
    ELSE Frame(\E i \in DOMAIN dets : dets[i].hasKey,
               \E i \in DOMAIN dets : dets[i].hasKey,
               [i \in DOMAIN dets |-> dets[i].scientific_name])

\* enrich_detections_with_taxonomy, lines 110-127: the names the species loop
\* looks up, none when the column is missing or all null
NamesToLookUp(frame) ==
    IF ~frame.hasScientificName THEN {}
    ELSE {frame.names[i][1] : i \in {j \in DOMAIN frame.names : frame.names[j] # None}}

PipelineIdle ==
    /\ p_detections = <<>>
    /\ p_splitting = FALSE
    /\ p_df = NoFrame
    /\ p_lookups = {}
    /\ p_csv = FALSE
    /\ p_plot = ""
    /\ p_split = ""
    /\ p_stats = ""
    /\ p_pc = "idle"

PipelineInit ==
    /\ p_detections \in SeqsBetween(RawDetections, 0, MaxBatch)
    /\ p_splitting \in BOOLEAN
    /\ p_df = NoFrame
    /\ p_lookups = {}
    /\ p_csv = FALSE
    /\ p_plot = ""
    /\ p_split = ""
    /\ p_stats = ""
    /\ p_pc = "detections"

\* Lines 381-384: no DataFrame ends the run
InitializeDataFrame ==
    /\ p_pc = "detections"
    /\ p_df' = InitialFrame(p_detections)
    /\ p_pc' = IF InitialFrame(p_detections).absent THEN "exited" ELSE "enrich"
    /\ UNCHANGED <<p_detections, p_splitting, p_lookups, p_csv, p_plot, p_split,
                   p_stats>>

\* Line 391.  The call is in no try: an exception of the second pass (see
\* SecondPassLookup) ends the run.
EnrichDetections ==
    /\ p_pc = "enrich"
    /\ p_lookups' = NamesToLookUp(p_df)
    /\ \/ p_pc' = "save"
       \/ NamesToLookUp(p_df) # {} /\ p_pc' = "raised"
    /\ UNCHANGED <<p_detections, p_splitting, p_df, p_csv, p_plot, p_split,
                   p_stats>>

\* Lines 393-396 and 422-425: to_csv writes the file, or fails and is logged,
\* which skips the plot
SaveCsv ==
    /\ p_pc = "save"
    /\ \/ p_csv' = TRUE /\ p_pc' = "plot"
       \/ p_csv' = FALSE /\ p_pc' = "split"
    /\ UNCHANGED <<p_detections, p_splitting, p_df, p_lookups, p_plot, p_split,
                   p_stats>>

\* Lines 398-420: create_joypy_plot reads Species_NorwegianName (joy2_tester.py
\* line 35), a KeyError without the column; every exception is logged
JoypyPlot ==
    /\ p_pc = "plot"
    /\ \/ p_df.hasEnrichmentColumns /\ p_plot' = "plotted"
       \/ p_plot' = "error"
    /\ p_pc' = "split"
    /\ UNCHANGED <<p_detections, p_splitting, p_df, p_lookups, p_csv, p_split,
                   p_stats>>

\* Lines 427-439: split_audio_by_detection returns at a missing required
\* column (splitter_lydfilen.py lines 36-50)
SplitAudio ==
    /\ p_pc = "split"
    /\ p_split' = IF ~p_splitting THEN "disabled"
                  ELSE IF ~p_df.hasEnrichmentColumns THEN "missing column"
                  ELSE "selected"
    /\ p_pc' = "statistics"
    /\ UNCHANGED <<p_detections, p_splitting, p_df, p_lookups, p_csv, p_plot,
                   p_stats>>

\* Lines 441-445: generate_statistics_report reads the file back; an unread
\* file, a missing column (statistics.py line 29) and a failing temporal
\* analysis all end in {}
StatisticsReport ==
    /\ p_pc = "statistics"
    /\ \/ p_csv /\ p_df.hasEnrichmentColumns /\ p_stats' = "report"
       \/ p_stats' = "{}"
    /\ p_pc' = "finished"
    /\ UNCHANGED <<p_detections, p_splitting, p_df, p_lookups, p_csv, p_plot,
                   p_split>>

\* ---- claims about the pipeline

\* The batch is not empty and none of its detections has a species name field
NoSpeciesField ==
    /\ p_detections # <<>>
    /\ \A i \in DOMAIN p_detections : ~p_detections[i].hasKey

\* C12: a batch without any species name field is rejected before any lookup,
\* and no later stage handles it: the enriched dataset is not written, no
\* plot, segment selection or statistics stage runs on it.
C12_MissingFieldRejected ==
    NoSpeciesField =>
        /\ p_lookups = {}
        /\ ~p_csv
        /\ p_plot = ""
        /\ p_split = ""
        /\ p_stats = ""

\* C13: for an empty batch the DataFrame is the 'no data' result None and the
\* run ends there, without enrichment or any later stage; and the statistics
\* of an empty or absent dataset are the empty report {}, not an exception.
C13_EmptyBatchNeverRaises ==
    /\ (p_detections = <<>> /\ p_pc # "detections" /\ p_pc # "idle") =>
           /\ p_df = NoFrame
           /\ p_pc = "exited"
           /\ p_lookups = {} /\ ~p_csv /\ p_plot = "" /\ p_split = ""
           /\ p_stats = ""
    /\ \A tz \in TzOffsets : calculate_summary_statistics(<<>>, tz) = Ok(NoStats)

\* The run on an empty batch has ended
C13_Witness ==
    /\ p_detections = <<>>
    /\ p_pc = "exited"
    /\ p_df.absent

-----------------------------------------------------------------------------
(* SpecStatus: the red-list status normalisation on every bounded status    *)

MaxStatusLen == 4

StatusChars == {"V", "U", ",", " "}

\* 'VU, NT' and 'EN'
StatusVuNt == <<"V", "U", ",", " ", "N", "T">>
StatusEn == <<"E", "N">>

\* The cells of Redlist_Status before the normalisation: NA, or a text
RawStatuses ==
    {None, Some(StatusVuNt), Some(StatusEn)}
    \cup {Some(x) : x \in SeqsBetween(StatusChars, 0, MaxStatusLen)}

StatusIdle ==
    /\ s_raw = None
    /\ s_out = None
    /\ s_pc = "idle"

StatusInit ==
    /\ s_raw \in RawStatuses
    /\ s_out = None
    /\ s_pc = "call"

\* df["Redlist_Status"].apply(lambda ...) on one cell, lines 199-203
StatusCall ==
    /\ s_pc = "call"
    /\ s_out' = NormalizeStatus(s_raw)
    /\ s_pc' = "returned"
    /\ UNCHANGED s_raw

\* The text before the first comma of x, without the blanks around it
TrimmedFirstPart(x) ==
    LET comma == Min({i \in 1..Len(x) : x[i] = ","})
        inked == {i \in 1..(comma - 1) : x[i] # " "}
    IN  IF inked = {} THEN <<>>
        ELSE SubSeq(x, Min(inked), CHOOSE m \in inked : \A k \in inked : k <= m)

\* C14: a status with a comma becomes the trimmed text before its first comma
\* ('VU, NT' gives 'VU'), a status without a comma stays as it is ('EN' gives
\* 'EN'); so the result holds no comma, and normalising it again changes
\* nothing.
C14_StatusNormalisation ==
    s_pc = "returned" =>
        /\ (s_raw # None /\ HasComma(s_raw[1])) =>
               s_out = Some(TrimmedFirstPart(s_raw[1]))
        /\ (s_raw = None \/ ~HasComma(s_raw[1])) => s_out = s_raw
        /\ s_out # None => ~HasComma(s_out[1])
        /\ NormalizeStatus(s_out) = s_out
        /\ s_raw = Some(StatusVuNt) => s_out = Some(<<"V", "U">>)
        /\ s_raw = Some(StatusEn) => s_out = Some(StatusEn)

\* 'VU, NT' has been normalised
C14_Witness ==
    /\ s_pc = "returned"
    /\ s_raw = Some(StatusVuNt)
    /\ s_out = Some(<<"V", "U">>)

-----------------------------------------------------------------------------
(* SpecActivity: the time features and the daily and per-species analyses   *)
(* on every bounded frame of detection times                                *)

MaxStamped == 3

\* The naive datetime of day d (from 1970-01-01) at h:m, in seconds
At(d, h, m) == d * 86400 + h * 3600 + m * 60

\* 04:00, 07:55, 08:00, 08:15, 20:59 and 21:00 of one day and 03:59 of the next
ActivityTimes ==
    {At(0, 4, 0), At(0, 7, 55), At(0, 8, 0), At(0, 8, 15), At(0, 20, 59),
     At(0, 21, 0), At(1, 3, 59)}

\* A row after line 95: the species name and detection_datetime, which is
\* missing when the file name gave no timestamp: "vipe" at every time,
\* "rodstrupe" at 04:00 and 08:00, a taxon without a Norwegian name at 04:00,
\* and each of them without a timestamp
StampedRows ==
    {[Species_NorwegianName |-> Some("vipe"), detection_datetime |-> dt] :
        dt \in {Some(t) : t \in ActivityTimes} \cup {None}}
    \cup {[Species_NorwegianName |-> Some("rodstrupe"), detection_datetime |-> dt] :
             dt \in {Some(At(0, 4, 0)), Some(At(0, 8, 0)), None}}
    \cup {[Species_NorwegianName |-> None, detection_datetime |-> dt] :
             dt \in {Some(At(0, 4, 0)), None}}

NoOutcome == [error |-> "", value |-> <<>>]

ActivityIdle ==
    /\ a_df = <<>>
    /\ a_timed = NoOutcome
    /\ a_daily = NoOutcome
    /\ a_species = NoOutcome
    /\ a_pc = "idle"

ActivityInit ==
    /\ a_df \in SeqsBetween(StampedRows, 1, MaxStamped)
    /\ a_timed = NoOutcome
    /\ a_daily = NoOutcome
    /\ a_species = NoOutcome
    /\ a_pc = "features"

\* add_real_timestamps lines 97-105
AddTimeFeatures ==
    /\ a_pc = "features"
    /\ a_timed' = DtAccessor(a_df)
    /\ a_pc' = IF a_timed'.error # "" THEN "raised" ELSE "daily"
    /\ UNCHANGED <<a_df, a_daily, a_species>>

\* generate_temporal_summary line 336
AnalyzeDailyActivity ==
    /\ a_pc = "daily"
    /\ a_daily' = Ok(analyze_daily_activity_patterns(a_timed.value))
    /\ a_pc' = "species"
    /\ UNCHANGED <<a_df, a_timed, a_species>>

\* generate_temporal_summary line 337
AnalyzeSpeciesPatterns ==
    /\ a_pc = "species"
    /\ a_species' = analyze_species_temporal_patterns(a_timed.value)
    /\ a_pc' = IF a_species'.error # "" THEN "raised" ELSE "done"
    /\ UNCHANGED <<a_df, a_timed, a_daily>>

\* ---- claims about the activity profiles

\* The detection times of species s in the frame, and their hours
StampedTimes(s) ==
    {a_df[i].detection_datetime[1] :
        i \in {j \in DOMAIN a_df : /\ a_df[j].Species_NorwegianName = Some(s)
                                   /\ a_df[j].detection_datetime # None}}

\* The number of timestamped detections of species s
StampedCount(s) ==
    Cardinality({j \in DOMAIN a_df : /\ a_df[j].Species_NorwegianName = Some(s)
                                     /\ a_df[j].detection_datetime # None})

\* The number of detections of species s in hour bucket h
InBucket(s, h) ==
    Cardinality({j \in DOMAIN a_df :
        /\ a_df[j].Species_NorwegianName = Some(s)
        /\ a_df[j].detection_datetime # None
        /\ (a_df[j].detection_datetime[1] \div 3600) % 24 = h})

\* The earliest of the hour buckets that hold the most detections of s
EarliestFullestHour(s) ==
    Min({h \in 0..23 : \A g \in 0..23 : InBucket(s, g) <= InBucket(s, h)})

NamedSpecies == {"rodstrupe", "vipe"}

\* C16: the peak window of a species is the hour bucket with the most of its
\* detections, and of several such hours the earliest, also when the
\* detections are on several days.
C16_PeakEarliestHour ==
    a_pc = "done" =>
        \A s \in NamedSpecies :
            StampedCount(s) > 0 =>
                /\ s \in DOMAIN a_species.value
                /\ a_species.value[s].peak_activity_window # None
                /\ a_species.value[s].peak_activity_window[1].from_hour
                       = EarliestFullestHour(s)
                /\ a_species.value[s].peak_activity_window[1].detections
                       = InBucket(s, EarliestFullestHour(s))

\* C17: a species with exactly one timestamped detection is reported with the
\* active period 'single detection' of duration zero, the call pattern
\* 'Single call' and no gap statistics; with two or more, with a range from
\* the first to the last detection and with gap statistics.
C17_SingleDetection ==
    a_pc \in {"done", "raised"} =>
        \A s \in NamedSpecies :
            /\ StampedCount(s) = 1 =>
                  /\ a_species.error = ""
                  /\ s \in DOMAIN a_species.value
                  /\ a_species.value[s].active_period # None
                  /\ a_species.value[s].active_period[1].kind = "single detection"
                  /\ a_species.value[s].active_duration_minutes = Some(Minutes(0, 1))
                  /\ a_species.value[s].call_pattern = Some("Single call")
                  /\ a_species.value[s].gap_statistics = None
            /\ StampedCount(s) >= 2 =>
                  /\ a_species.error = ""
                  /\ s \in DOMAIN a_species.value
                  /\ a_species.value[s].active_period # None
                  /\ a_species.value[s].active_period[1].kind = "range"
                  /\ a_species.value[s].active_period[1].first_time
                         = HourMinute(Min(StampedTimes(s)))
                  /\ a_species.value[s].active_period[1].last_time
                         = HourMinute(-Min({-t : t \in StampedTimes(s)}))
                  /\ a_species.value[s].gap_statistics # None

\* The same for the frames the analysis returns a result for
SingleDetectionWhenReturned ==
    a_pc = "raised" \/ C17_SingleDetection

\* The seconds from the first to the last detection of species s
SpanSeconds(s) == -Min({-t : t \in StampedTimes(s)}) - Min(StampedTimes(s))

\* C18: with two or more timestamped detections the call pattern follows the
\* mean gap m in minutes: 'Clustered' for m < 5, 'Regular' for 5 <= m <= 15,
\* 'Sporadic' for m > 15, so that m = 5 and m = 15 are both 'Regular'.
C18_CallPatternByMeanGap ==
    a_pc = "done" =>
        \A s \in NamedSpecies :
            StampedCount(s) >= 2 =>
                a_species.value[s].call_pattern =
                    Some(IF SpanSeconds(s) < 5 * 60 * (StampedCount(s) - 1)
                         THEN "Clustered"
                         ELSE IF SpanSeconds(s) <= 15 * 60 * (StampedCount(s) - 1)
                         THEN "Regular"
                         ELSE "Sporadic")

\* Species s has a detection whose hour of day is in hours
DetectedIn(s, hours) == \E h \in hours : InBucket(s, h) > 0

\* C19: a species is in the dawn subset exactly when it has a detection in
\* hour 4, 5, 6 or 7, and in the evening subset exactly when it has one in
\* hour 17, 18, 19 or 20; hours 8 and 21 belong to neither window.
C19_WindowsExcludeUpperBound ==
    a_pc \in {"species", "done"} =>
        \A s \in NamedSpecies :
            /\ s \in DOMAIN a_daily.value.dawn_chorus_species
                   <=> DetectedIn(s, {4, 5, 6, 7})
            /\ s \in DOMAIN a_daily.value.evening_activity_species
                   <=> DetectedIn(s, {17, 18, 19, 20})

-----------------------------------------------------------------------------
(* SpecReport: calculate_summary_statistics on every bounded frame of       *)
(* detections with confidence scores                                        *)

MaxScored == 3

\* 0.49, 0.5, 0.7 and 0.9
ConfidenceValues == {49, 50, 70, 90}

ScoredFilenames == {MorningFile, NoTimestampFile}

ScoredRows ==
    {[confidence |-> c] @@ EnrichedRow(f, 45, Some("rodstrupe"), Some("LC")) :
        f \in ScoredFilenames, c \in ConfidenceValues}

ReportIdle ==
    /\ r_df = <<>>
    /\ r_tz = 0
    /\ r_bands = None
    /\ r_stats = NoOutcome
    /\ r_pc = "idle"

ReportInit ==
    /\ r_df \in SeqsBetween(ScoredRows, 0, MaxScored)
    /\ r_tz \in TzOffsets
    /\ r_bands = None
    /\ r_stats = NoOutcome
    /\ r_pc = "start"

\* Lines 19-21: an empty frame gives {}
EmptyFrame ==
    /\ r_pc = "start"
    /\ r_df = <<>>
    /\ r_stats' = Ok(NoStats)
    /\ r_pc' = "returned"
    /\ UNCHANGED <<r_df, r_tz, r_bands>>

\* Lines 23-116: the counts and the confidence statistics are put into stats
ConfidenceBands ==
    /\ r_pc = "start"
    /\ r_df # <<>>
    /\ r_bands' = ConfidenceStatistics(r_df)
    /\ r_pc' = "temporal"
    /\ UNCHANGED <<r_df, r_tz, r_stats>>

\* Lines 118-122: the temporal analysis, whose exception leaves the function
TemporalAnalysis ==
    /\ r_pc = "temporal"
    /\ r_stats' = Statistics(r_df, generate_temporal_summary(r_df, r_tz))
    /\ r_pc' = IF r_stats'.error # "" THEN "raised" ELSE "returned"
    /\ UNCHANGED <<r_df, r_tz, r_bands>>

\* ---- claims about the confidence bands

\* The detections of the frame whose confidence is at least lo and below hi
ScoredBetween(lo, hi) ==
    Cardinality({i \in DOMAIN r_df :
        lo <= r_df[i].confidence /\ r_df[i].confidence < hi})

\* p tenths is a nearest tenth of 100 * count / total
NearestTenth(p, count, total) ==
    /\ 2 * (p * total - 1000 * count) <= total
    /\ 2 * (1000 * count - p * total) <= total

\* C20: very-high (>= 0.9), high ([0.7, 0.9)), medium ([0.5, 0.7)) and low
\* (< 0.5) partition the batch: each band counts the detections of its range,
\* the four counts sum to the number of detections, each percentage is the
\* count against the number of all detections, and the four percentages sum to
\* 100 within the rounding of four values to one decimal.
C20_ConfidenceBandsPartition ==
    (r_pc \in {"temporal", "returned", "raised"} /\ r_df # <<>>) =>
        /\ r_bands # None
        /\ r_bands[1].very_high.count = ScoredBetween(90, 101)
        /\ r_bands[1].high.count = ScoredBetween(70, 90)
        /\ r_bands[1].medium.count = ScoredBetween(50, 70)
        /\ r_bands[1].low.count = ScoredBetween(0, 50)
        /\ r_bands[1].very_high.count + r_bands[1].high.count
               + r_bands[1].medium.count + r_bands[1].low.count = Len(r_df)
        /\ \A b \in {"very_high", "high", "medium", "low"} :
               NearestTenth(r_bands[1][b].percentage, r_bands[1][b].count, Len(r_df))
        /\ r_bands[1].very_high.percentage + r_bands[1].high.percentage
               + r_bands[1].medium.percentage + r_bands[1].low.percentage
               \in 998..1002
        /\ r_pc = "returned" => r_stats.value.confidence_distribution = r_bands

\* C20 witness: a returned report on three detections with the scores 0.9, 0.7
\* and 0.49, whose percentages 33.3, 33.3, 0 and 33.3 sum to 99.9
C20_Witness ==
    /\ r_pc = "returned"
    /\ Len(r_df) = 3
    /\ r_bands # None
    /\ r_bands[1].very_high = [count |-> 1, percentage |-> 333]
    /\ r_bands[1].high = [count |-> 1, percentage |-> 333]
    /\ r_bands[1].medium = [count |-> 0, percentage |-> 0]
    /\ r_bands[1].low = [count |-> 1, percentage |-> 333]
    /\ r_stats.value.confidence_distribution = r_bands

-----------------------------------------------------------------------------
(* The species and red-list counts of calculate_summary_statistics and      *)
(* their listing by print_summary_statistics                                *)

\* A dict as the sequence of its items, in the order of the dict
Item(k, v) == [key |-> k, value |-> v]

Keys(items) == [i \in DOMAIN items |-> items[i].key]

HasKey(items, k) == \E i \in DOMAIN items : items[i].key = k

Lookup(items, k) == items[CHOOSE i \in DOMAIN items : items[i].key = k].value

\* A stable sort of items by value, highest first: sorted(.., key = value,
\* reverse = True), and the count order of value_counts
RECURSIVE SortByValueDesc(_)
SortByValueDesc(items) ==
    IF items = <<>> THEN <<>>
    ELSE LET most == -Min({-items[i].value : i \in DOMAIN items})
             at == Min({i \in DOMAIN items : items[i].value = most})
         IN  <<items[at]>> \o SortByValueDesc(SubSeq(items, 1, at - 1)
                                  \o SubSeq(items, at + 1, Len(items)))

\* Series.value_counts().to_dict(): the present values with their counts, the
\* most frequent first and values of equal count in the order of their first
\* row
ValueCountsItems(col) ==
    LET present == UniquePresent(col, {})
    IN  SortByValueDesc([i \in DOMAIN present |->
            Item(present[i],
                 Cardinality({j \in DOMAIN col : col[j] = Some(present[i])}))])

\* df[df[col] == v]
RowsWith(df, col, v) ==
    LET Sel(row) == row[col] = Some(v) IN SelectSeq(df, Sel)

top_species_limit == 10

\* The variant that ranks every species
TopSpeciesAll(species_counts) == SortByValueDesc(species_counts)

\* Line 33: dict(sorted(species_counts.items(), ...)[:10])
TopSpecies(species_counts) ==
    SubSeq(SortByValueDesc(species_counts), 1,
           Min({top_species_limit, Len(species_counts)}))

\* Lines 101-112: for every present status, in the order of unique(), the
\* counts of the species of its rows
SpeciesByRedlistStatus(df) ==
    LET statuses == UniquePresent(Column(df, "Redlist_Status"), {})
    IN  [i \in DOMAIN statuses |->
            Item(statuses[i],
                 ValueCountsItems(Column(RowsWith(df, "Redlist_Status", statuses[i]),
                                         "Species_NorwegianName")))]

\* Lines 23-36 and 97-112 of calculate_summary_statistics
CountStatistics(df) ==
    [total_observations |-> Len(df),
     observations_per_species |->
         ValueCountsItems(Column(df, "Species_NorwegianName")),
     top_species |->
         TopSpecies(ValueCountsItems(Column(df, "Species_NorwegianName"))),
     unique_species_count |->
         Cardinality({df[i].Species_NorwegianName[1] :
             i \in {j \in DOMAIN df : df[j].Species_NorwegianName # None}}),
     observations_per_redlist_status |->
         ValueCountsItems(Column(df, "Redlist_Status")),
     species_by_redlist_status |-> SpeciesByRedlistStatus(df)]

redlist_order == <<"CR", "EN", "VU", "NT", "LC", "DD", "NA", "NE">>

InRedlistOrder(status) == \E i \in DOMAIN redlist_order : redlist_order[i] = status

\* Lines 174-182 and 186-194: the line of one status and the lines of its
\* species, the most observed first
StatusLines(stats, status) ==
    [status |-> status,
     count |-> Lookup(stats.observations_per_redlist_status, status),
     species |->
         IF HasKey(stats.species_by_redlist_status, status)
         THEN SortByValueDesc(Lookup(stats.species_by_redlist_status, status))
         ELSE <<>>]

\* print_summary_statistics lines 166-197: the statuses of redlist_order that
\* have a count, then the other statuses in the order of the counts dict
PrintRedlist(stats) ==
    LET Counted(status) == HasKey(stats.observations_per_redlist_status, status)
        Other(status) == ~InRedlistOrder(status) /\ status # ""
        known == SelectSeq(redlist_order, Counted)
        others == SelectSeq(Keys(stats.observations_per_redlist_status), Other)
    IN  [i \in DOMAIN known |-> StatusLines(stats, known[i])]
        \o [i \in DOMAIN others |-> StatusLines(stats, others[i])]

-----------------------------------------------------------------------------
(* SpecSummary: the counts and the red-list listing on every bounded frame  *)

MaxSummary == 3

\* A row of the enriched detections: the species name and the status
SummaryRow(name, status) ==
    [Species_NorwegianName |-> name, Redlist_Status |-> status]

\* Ten species with one detection each
TenSpecies ==
    [i \in 1..top_species_limit |->
        SummaryRow(Some(<<"art", i>>), Some("LC"))]

\* The taxa of the other rows: the first of the ten species, three more
\* species (one with a status of redlist_order, two with other statuses) and
\* taxa without a Norwegian name, with and without a status
SummaryTaxa ==
    {SummaryRow(Some(<<"art", 1>>), Some("LC")),
     SummaryRow(Some(<<"vipe", 0>>), Some("CR")),
     SummaryRow(Some(<<"xx", 0>>), Some("XX")),
     SummaryRow(Some(<<"yy", 0>>), Some("YY")),
     SummaryRow(None, Some("XX")),
     SummaryRow(None, None)}

SummaryFrames ==
    {head \o tail : head \in {<<>>, TenSpecies},
                    tail \in SeqsBetween(SummaryTaxa, 1, MaxSummary)}

NoCounts ==
    [total_observations |-> 0, observations_per_species |-> <<>>,
     top_species |-> <<>>, unique_species_count |-> 0,
     observations_per_redlist_status |-> <<>>,
     species_by_redlist_status |-> <<>>]

SummaryIdle ==
    /\ u_df = <<>>
    /\ u_stats = NoCounts
    /\ u_lines = <<>>
    /\ u_pc = "idle"

SummaryInit ==
    /\ u_df \in SummaryFrames
    /\ u_stats = NoCounts
    /\ u_lines = <<>>
    /\ u_pc = "count"

\* calculate_summary_statistics lines 23-36 and 97-112
CountObservations ==
    /\ u_pc = "count"
    /\ u_stats' = CountStatistics(u_df)
    /\ u_pc' = "print"
    /\ UNCHANGED <<u_df, u_lines>>

\* print_summary_statistics lines 166-197
PrintSummaryStatistics ==
    /\ u_pc = "print"
    /\ u_lines' = PrintRedlist(u_stats)
    /\ u_pc' = "printed"
    /\ UNCHANGED <<u_df, u_stats>>

\* ---- claims about the counts and the listing

\* The number of rows of the frame with the status
StatusCount(status) ==
    Cardinality({i \in DOMAIN u_df : u_df[i].Redlist_Status = Some(status)})

\* The named species of the rows with the status
StatusSpecies(status) ==
    {u_df[i].Species_NorwegianName :
        i \in {j \in DOMAIN u_df : /\ u_df[j].Redlist_Status = Some(status)
                                   /\ u_df[j].Species_NorwegianName # None}}

\* The statuses of the frame in the order the claim gives: the present ones
\* of the priority sequence, then the others as first encountered
PriorityThenEncounter ==
    LET Present(status) == StatusCount(status) > 0
        Other(status) == ~InRedlistOrder(status)
    IN  SelectSeq(redlist_order, Present)
        \o SelectSeq(UniquePresent(Column(u_df, "Redlist_Status"), {}), Other)

\* C21: the listing gives the present statuses of CR, EN, VU, NT, LC, DD, NA,
\* NE in that order, each with its detection count and its species, and after
\* them the other status values in the order of their first row.
C21_PriorityThenEncounterOrder ==
    u_pc = "printed" =>
        /\ [i \in DOMAIN u_lines |-> u_lines[i].status] = PriorityThenEncounter
        /\ \A i \in DOMAIN u_lines :
              /\ u_lines[i].count = StatusCount(u_lines[i].status)
              /\ {Some(u_lines[i].species[k].key) : k \in DOMAIN u_lines[i].species}
                     = StatusSpecies(u_lines[i].status)

\* The sum of the values of a dict
RECURSIVE SumValues(_)
SumValues(items) ==
    IF items = <<>> THEN 0 ELSE Head(items).value + SumValues(Tail(items))

\* The number of rows of the frame without a Norwegian species name
Unnamed == Cardinality({i \in DOMAIN u_df : u_df[i].Species_NorwegianName = None})

\* C30: the per-species counts sum to the total count less the detections
\* without a species name, the distinct species count is the number of species
\* with a count, and the top-species ranking holds at most 10 species, each
\* with its count and none with a smaller count than a species left out.
C30_SpeciesCountsConsistent ==
    u_pc \in {"print", "printed"} =>
        /\ u_stats.total_observations = Len(u_df)
        /\ SumValues(u_stats.observations_per_species)
               = u_stats.total_observations - Unnamed
        /\ u_stats.unique_species_count = Len(u_stats.observations_per_species)
        /\ Len(u_stats.top_species) <= 10
        /\ \A i \in DOMAIN u_stats.top_species :
              /\ HasKey(u_stats.observations_per_species, u_stats.top_species[i].key)
              /\ Lookup(u_stats.observations_per_species, u_stats.top_species[i].key)
                     = u_stats.top_species[i].value
        /\ \A j \in DOMAIN u_stats.observations_per_species :
              ~HasKey(u_stats.top_species, u_stats.observations_per_species[j].key) =>
                  \A i \in DOMAIN u_stats.top_species :
                      u_stats.top_species[i].value
                          >= u_stats.observations_per_species[j].value

\* C30 witness: eleven species, one of them detected twice and first in the
\* ranking, one of the others left out of it, and a detection without a name
C30_Witness ==
    /\ u_pc = "printed"
    /\ u_stats.unique_species_count = 11
    /\ Len(u_stats.top_species) = 10
    /\ u_stats.top_species[1].value = 2
    /\ Unnamed = 1

-----------------------------------------------------------------------------
(* split_audio_by_detection: the detections selected for every species and *)
(* the segments saved for them                                              *)

\* A row of detections_df: its index label, its Norwegian species name, its
\* confidence, and the file at its filepath: "ok", "missing", or "corrupt"
\* when pydub cannot decode it
DetectionRow(index, name, confidence, file) ==
    [index |-> index, Species_NorwegianName |-> name,
     confidence |-> confidence, file |-> file]

\* The order of the species names as Python compares strings
NameOrder == <<" ", "gjok", "vipe">>

\* groupby("Species_NorwegianName"): the present names in sorted order; rows
\* without a name belong to no group
GroupKeys(df) ==
    LET Named(name) == \E i \in DOMAIN df : df[i].Species_NorwegianName = Some(name)
    IN  SelectSeq(NameOrder, Named)

\* The rows of one group, in the order of the frame
GroupRows(df, name) ==
    LET Sel(row) == row.Species_NorwegianName = Some(name) IN SelectSeq(df, Sel)

\* The rows by falling confidence, rows of equal confidence in the order of
\* the frame (keep = "first") or in the opposite order (keep = "last")
RECURSIVE ByConfidence(_, _)
ByConfidence(group, keep) ==
    IF group = <<>> THEN <<>>
    ELSE LET most == -Min({-group[i].confidence : i \in DOMAIN group})
             ties == {i \in DOMAIN group : group[i].confidence = most}
             at == IF keep = "first" THEN Min(ties) ELSE -Min({-i : i \in ties})
         IN  <<group[at]>> \o ByConfidence(SubSeq(group, 1, at - 1)
                                  \o SubSeq(group, at + 1, Len(group)), keep)

\* The variant that takes the first n rows of the group
nlargest_head(group, n) == SubSeq(group, 1, Min({Len(group), n}))

\* The variant that keeps the last rows among those of equal confidence
nlargest_last(group, n) ==
    SubSeq(ByConfidence(group, "last"), 1, Min({Len(group), n}))

\* group.nlargest(n, "confidence"): the n rows of highest confidence, highest
\* first, the first rows among those of equal confidence
nlargest(group, n) ==
    SubSeq(ByConfidence(group, "first"), 1, Min({Len(group), n}))

RECURSIVE Concat(_)
Concat(frames) ==
    IF frames = <<>> THEN <<>> ELSE Head(frames) \o Concat(Tail(frames))

\* The variant that puts the rows without a name into a group of their own
selected_detections_with_unnamed(df, max_segments_per_species) ==
    LET keys == GroupKeys(df)
        Unlabelled(row) == row.Species_NorwegianName = None
    IN  Concat([k \in DOMAIN keys |->
                   nlargest(GroupRows(df, keys[k]), max_segments_per_species)])
        \o nlargest(SelectSeq(df, Unlabelled), max_segments_per_species)

\* Lines 57-64: groupby(..).apply(nlargest).reset_index(drop = True)
selected_detections(df, max_segments_per_species) ==
    LET keys == GroupKeys(df)
    IN  Concat([k \in DOMAIN keys |->
                   nlargest(GroupRows(df, keys[k]), max_segments_per_species)])

\* Lines 95-98: pd.isna(name) or not name.strip()
NameMissing(name) == name = None \/ name = Some(" ")

\* ---- split_audio_by_detection on a frame of detections

MaxSelect == 2

SelectConfidences == {1, 3}

SelectRows ==
    {[Species_NorwegianName |-> name, confidence |-> c, file |-> "ok"] :
        name \in {None, Some(" "), Some("gjok"), Some("vipe")},
        c \in SelectConfidences}
    \cup {[Species_NorwegianName |-> Some("vipe"), confidence |-> 3, file |-> f] :
             f \in {"missing", "corrupt"}}

\* Ten detections of one species, of confidence 2, 3, 1, 2, 3, 1, ..
TenDetections ==
    [i \in 1..10 |->
        [Species_NorwegianName |-> Some("vipe"), confidence |-> (i % 3) + 1,
         file |-> "ok"]]

SegmentCaps == {0, 1, 10}

\* The frames: a default RangeIndex over the rows
SelectFrames ==
    {[i \in DOMAIN rows |->
         DetectionRow(i - 1, rows[i].Species_NorwegianName, rows[i].confidence,
                      rows[i].file)] :
        rows \in {head \o tail : head \in {<<>>, TenDetections},
                                 tail \in SeqsBetween(SelectRows, 0, MaxSelect)}}

SelectIdle ==
    /\ c_df = <<>>
    /\ c_cap = 0
    /\ c_sel = <<>>
    /\ c_todo = <<>>
    /\ c_saved = <<>>
    /\ c_pc = "idle"

SelectInit ==
    /\ c_df \in SelectFrames
    /\ c_cap \in SegmentCaps
    /\ c_sel = <<>>
    /\ c_todo = <<>>
    /\ c_saved = <<>>
    /\ c_pc = "select"

\* Lines 31-35: no detections, nothing to do
NoDetections ==
    /\ c_pc = "select"
    /\ c_df = <<>>
    /\ c_pc' = "returned"
    /\ UNCHANGED <<c_df, c_cap, c_sel, c_todo, c_saved>>

\* Lines 37-72: the columns are those of an enriched frame; the selection,
\* and the return when it is empty
SelectDetections ==
    /\ c_pc = "select"
    /\ c_df # <<>>
    /\ c_sel' = selected_detections(c_df, c_cap)
    /\ c_todo' = c_sel'
    /\ c_pc' = IF c_sel' = <<>> THEN "returned" ELSE "split"
    /\ UNCHANGED <<c_df, c_cap, c_saved>>

\* Lines 75-102: a selected detection whose file is gone or whose name is
\* missing is skipped
SkipSegment ==
    /\ c_pc = "split"
    /\ c_todo # <<>>
    /\ Head(c_todo).file = "missing"
           \/ NameMissing(Head(c_todo).Species_NorwegianName)
    /\ c_todo' = Tail(c_todo)
    /\ UNCHANGED <<c_df, c_cap, c_sel, c_saved, c_pc>>

\* Lines 104-141: the segment is cut and exported, or the failure of pydub
\* is logged
SaveSegment ==
    /\ c_pc = "split"
    /\ c_todo # <<>>
    /\ Head(c_todo).file # "missing"
    /\ ~NameMissing(Head(c_todo).Species_NorwegianName)
    /\ c_saved' = IF Head(c_todo).file = "ok" THEN Append(c_saved, Head(c_todo))
                  ELSE c_saved
    /\ c_todo' = Tail(c_todo)
    /\ UNCHANGED <<c_df, c_cap, c_sel, c_pc>>

\* The loop is over
SplitReturn ==
    /\ c_pc = "split"
    /\ c_todo = <<>>
    /\ c_pc' = "returned"
    /\ UNCHANGED <<c_df, c_cap, c_sel, c_todo, c_saved>>

\* ---- the selection, once made

Selected == c_pc \in {"split", "returned"} /\ c_df # <<>>

SelectNames == {NameOrder[i] : i \in DOMAIN NameOrder}

\* The index labels of the detections of a species, and of the selected ones
IndexOf(name) ==
    {c_df[i].index : i \in {j \in DOMAIN c_df : c_df[j].Species_NorwegianName = Some(name)}}

KeptOf(name) ==
    {c_sel[i].index : i \in {j \in DOMAIN c_sel : c_sel[j].Species_NorwegianName = Some(name)}}

\* The row of the frame with an index label
RowAt(index) == c_df[CHOOSE i \in DOMAIN c_df : c_df[i].index = index]

\* C22: once the selection is made, every species with n detections has
\* exactly min(cap, n) of them selected, each selected row is a row of the
\* frame, no detection left out has a higher confidence than a selected one of
\* its species, a cap of 0 selects nothing and the call returns, and of 12
\* detections of one species under a cap of 10 exactly 10 are selected
C22_CappedHighestConfidence ==
    Selected =>
        /\ \A name \in SelectNames :
              /\ KeptOf(name) \subseteq IndexOf(name)
              /\ Cardinality(KeptOf(name)) = Min({c_cap, Cardinality(IndexOf(name))})
              /\ \A out \in IndexOf(name) \ KeptOf(name) : \A in \in KeptOf(name) :
                     RowAt(out).confidence <= RowAt(in).confidence
        /\ \A i \in DOMAIN c_sel : c_sel[i] = RowAt(c_sel[i].index)
        /\ c_cap = 0 => c_sel = <<>> /\ c_pc = "returned"
        /\ (Cardinality(IndexOf("vipe")) = 12 /\ c_cap = 10) =>
              /\ Cardinality(KeptOf("vipe")) = 10
              /\ Cardinality(IndexOf("vipe") \ KeptOf("vipe")) = 2

\* Twelve detections of one species under a cap of 10: a detection of the
\* first ten is left out for a later one of higher confidence
C22_Witness ==
    /\ c_pc = "returned"
    /\ Cardinality(IndexOf("vipe")) = 12
    /\ c_cap = 10
    /\ Len(c_sel) = 10
    /\ \E out \in IndexOf("vipe") \ KeptOf("vipe") : out < 10
    /\ \E in \in KeptOf("vipe") : in >= 10

\* The place of a selected detection in the selection
PlaceOf(index) == CHOOSE i \in DOMAIN c_sel : c_sel[i].index = index

\* C23: among the detections of a species with equal confidence the earlier
\* ones are selected first, no detection is selected twice, and the selection
\* lists the species in sorted order, and within a species the detections by
\* falling confidence and then in the order of the input
C23_EarlierKeptOnTies ==
    Selected =>
        /\ \A name \in SelectNames : \A early, late \in IndexOf(name) :
              (/\ early < late
               /\ RowAt(early).confidence = RowAt(late).confidence
               /\ late \in KeptOf(name)) => early \in KeptOf(name)
        /\ \A p, q \in DOMAIN c_sel :
              p < q =>
                 /\ c_sel[p].index # c_sel[q].index
                 /\ \E a, b \in DOMAIN NameOrder :
                       /\ c_sel[p].Species_NorwegianName = Some(NameOrder[a])
                       /\ c_sel[q].Species_NorwegianName = Some(NameOrder[b])
                       /\ a <= b
                       /\ a = b =>
                             \/ c_sel[p].confidence > c_sel[q].confidence
                             \/ /\ c_sel[p].confidence = c_sel[q].confidence
                                /\ c_sel[p].index < c_sel[q].index

\* Two detections of one species and equal confidence at the cap: the earlier
\* is selected, the later is not
C23_Witness ==
    /\ Selected
    /\ \E early, late \in IndexOf("vipe") :
          /\ early < late
          /\ RowAt(early).confidence = RowAt(late).confidence
          /\ early \in KeptOf("vipe")
          /\ late \notin KeptOf("vipe")
    /\ \E early, late \in KeptOf("vipe") :
          /\ early < late
          /\ RowAt(early).confidence = RowAt(late).confidence
          /\ PlaceOf(early) < PlaceOf(late)

\* The detections without a Norwegian species name
Nameless == {i \in DOMAIN c_df : c_df[i].Species_NorwegianName = None}

\* C24: a detection without a Norwegian species name is in no group of the
\* selection, the selection is as large as the caps of the named species
\* allow whatever the number of nameless detections, and no segment is saved
\* for a nameless detection
C24_NamelessExcluded ==
    /\ Selected =>
          /\ \A i \in DOMAIN c_sel : c_sel[i].Species_NorwegianName # None
          /\ \A i \in Nameless : \A j \in DOMAIN c_sel : c_sel[j].index # c_df[i].index
          /\ \A name \in SelectNames :
                Cardinality(KeptOf(name)) = Cardinality(IndexOf(name))
                    \/ Cardinality(KeptOf(name)) = c_cap
          /\ Len(c_sel) = Cardinality(UNION {KeptOf(name) : name \in SelectNames})
    /\ \A i \in DOMAIN c_saved :
          /\ c_saved[i].Species_NorwegianName # None
          /\ \A j \in Nameless : c_saved[i].index # c_df[j].index

\* A nameless detection of the highest confidence next to a named one whose
\* segment is saved
C24_Witness ==
    /\ c_pc = "returned"
    /\ c_cap = 1
    /\ \E i \in Nameless : c_df[i].confidence = 3
    /\ Len(c_sel) = 1
    /\ c_saved # <<>>

-----------------------------------------------------------------------------
(* The enriched detections written with to_csv and read with read_csv      *)

\* The texts that read_csv takes for a missing value (keep_default_na)
na_values ==
    {"", "#N/A", "#N/A N/A", "#NA", "-1.#IND", "-1.#QNAN", "-NaN", "-nan",
     "1.#IND", "1.#QNAN", "<NA>", "N/A", "NA", "NULL", "NaN", "None", "n/a",
     "nan", "null"}

\* to_csv: a missing value is written as the empty text (na_rep = ""), a
\* text as it is
FormatField(cell) == IF cell = None THEN "" ELSE cell[1]

\* read_csv: a text of na_values is read as a missing value
ParseField(text) == IF text \in na_values THEN None ELSE Some(text)

\* detections_df.to_csv(output_csv_path, index = False, sep = ";"): the
\* header and one line of fields for every row
to_csv(df) ==
    [header |-> <<"Species_NorwegianName", "Redlist_Status">>,
     lines |-> [i \in DOMAIN df |->
                   <<FormatField(df[i].Species_NorwegianName),
                     FormatField(df[i].Redlist_Status)>>]]

\* pd.read_csv(csv_path, sep = ";"): the columns are named by the header
read_csv(file) ==
    [i \in DOMAIN file.lines |->
        [Species_NorwegianName |-> ParseField(file.lines[i][1]),
         Redlist_Status |-> ParseField(file.lines[i][2])]]

\* ---- run_full_analysis saves the batch, generate_statistics_report reads it

MaxCsv == 2

CsvRows ==
    {SummaryRow(name, status) :
        name \in {None, Some("gjok"), Some("vipe")},
        status \in {None, Some("CR"), Some("LC"), Some("NA")}}

NoFile == [header |-> <<>>, lines |-> <<>>]

CsvIdle ==
    /\ v_df = <<>>
    /\ v_file = NoFile
    /\ v_read = <<>>
    /\ v_stats = NoCounts
    /\ v_pc = "idle"

CsvInit ==
    /\ v_df \in SeqsBetween(CsvRows, 1, MaxCsv)
    /\ v_file = NoFile
    /\ v_read = <<>>
    /\ v_stats = NoCounts
    /\ v_pc = "save"

\* analyser_lyd_main.py line 394
WriteEnrichedCsv ==
    /\ v_pc = "save"
    /\ v_file' = to_csv(v_df)
    /\ v_pc' = "saved"
    /\ UNCHANGED <<v_df, v_read, v_stats>>

\* statistics.py line 247
ReadEnrichedCsv ==
    /\ v_pc = "saved"
    /\ v_read' = read_csv(v_file)
    /\ v_pc' = "read"
    /\ UNCHANGED <<v_df, v_file, v_stats>>

\* statistics.py line 250: the counts of the frame that was read
CountFromFile ==
    /\ v_pc = "read"
    /\ v_stats' = CountStatistics(v_read)
    /\ v_pc' = "counted"
    /\ UNCHANGED <<v_df, v_file, v_read>>

\* C25: the frame read from the file has the rows of the batch that was
\* written, every field with the value it had (a missing field missing, a
\* status code the same code), and the counts computed from it are those of
\* the batch
C25_RoundTripStable ==
    /\ v_pc \in {"read", "counted"} =>
          /\ Len(v_read) = Len(v_df)
          /\ \A i \in DOMAIN v_df :
                /\ v_read[i].Species_NorwegianName = v_df[i].Species_NorwegianName
                /\ v_read[i].Redlist_Status = v_df[i].Redlist_Status
    /\ v_pc = "counted" => v_stats = CountStatistics(v_df)

-----------------------------------------------------------------------------
(* ProgressTracker: the progress, status and cancellation flag behind a    *)
(* lock, called from the monitoring loop and from the analysis thread       *)

\* Progress in hundredths: 0.1 is 10, 1.0 is 100

\* The variant that stores the progress as it is given
Unclamped(progress) == progress

\* Line 22: max(0.0, min(1.0, progress))
Clamp(progress) ==
    LET least == IF 100 < progress THEN 100 ELSE progress
    IN  IF 0 > least THEN 0 ELSE least

\* ProgressTracker(): lines 13-17
NewTracker == [progress |-> 0, status |-> "", cancel_requested |-> FALSE]

\* ---- calls of the methods from two threads

Callers == {"monitor", "analysis"}

TrackerMethods == {"get_progress", "request_cancel", "is_cancelled", "reset"}

ProgressArguments == {-50, 40, 150}

StatusArguments == {"", "Saving results..."}

\* A call: its method, its arguments, and where it stands
NoCall == [method |-> "none", progress |-> 0, status |-> "", at |-> "idle"]

TrackerCall(method, progress, status) ==
    [method |-> method, progress |-> progress, status |-> status, at |-> "acquire"]

NoAnswer == [progress |-> 0, status |-> "", cancelled |-> FALSE]

TrackerIdle ==
    /\ k_tracker = NewTracker
    /\ k_lock = "free"
    /\ k_call = [c \in Callers |-> NoCall]
    /\ k_answer = [c \in Callers |-> NoAnswer]

TrackerInit ==
    /\ k_tracker = NewTracker
    /\ k_lock = "free"
    /\ k_call = [c \in Callers |-> NoCall]
    /\ k_answer = [c \in Callers |-> NoAnswer]

\* A thread calls a method; what the call before returned is dropped
CallMethod(c) ==
    /\ k_call[c].at = "idle"
    /\ \E call \in {TrackerCall(m, 0, "") : m \in TrackerMethods}
                   \cup {TrackerCall("update", p, s) :
                            p \in ProgressArguments, s \in StatusArguments} :
           k_call' = [k_call EXCEPT ![c] = call]
    /\ k_answer' = [k_answer EXCEPT ![c] = NoAnswer]
    /\ UNCHANGED <<k_tracker, k_lock>>

\* with self.lock: the lock is taken when it is free
AcquireLock(c) ==
    /\ k_call[c].at = "acquire"
    /\ k_lock = "free"
    /\ k_lock' = c
    /\ k_call' = [k_call EXCEPT ![c].at = "body"]
    /\ UNCHANGED <<k_tracker, k_answer>>

\* Line 22 of update
UpdateProgress(c) ==
    /\ k_call[c].at = "body"
    /\ k_call[c].method = "update"
    /\ k_tracker' = [k_tracker EXCEPT !.progress = Clamp(k_call[c].progress)]
    /\ k_call' = [k_call EXCEPT ![c].at = "status"]
    /\ UNCHANGED <<k_lock, k_answer>>

\* Lines 23-24 of update
UpdateStatus(c) ==
    /\ k_call[c].at = "status"
    /\ k_tracker' = IF k_call[c].status # ""
                    THEN [k_tracker EXCEPT !.status = k_call[c].status]
                    ELSE k_tracker
    /\ k_call' = [k_call EXCEPT ![c].at = "release"]
    /\ UNCHANGED <<k_lock, k_answer>>

\* Lines 26-29
GetProgress(c) ==
    /\ k_call[c].at = "body"
    /\ k_call[c].method = "get_progress"
    /\ k_answer' = [k_answer EXCEPT ![c].progress = k_tracker.progress,
                                    ![c].status = k_tracker.status]
    /\ k_call' = [k_call EXCEPT ![c].at = "release"]
    /\ UNCHANGED <<k_tracker, k_lock>>

\* Lines 31-34
RequestCancel(c) ==
    /\ k_call[c].at = "body"
    /\ k_call[c].method = "request_cancel"
    /\ k_tracker' = [k_tracker EXCEPT !.cancel_requested = TRUE]
    /\ k_call' = [k_call EXCEPT ![c].at = "release"]
    /\ UNCHANGED <<k_lock, k_answer>>

\* Lines 36-39
IsCancelled(c) ==
    /\ k_call[c].at = "body"
    /\ k_call[c].method = "is_cancelled"
    /\ k_answer' = [k_answer EXCEPT ![c].cancelled = k_tracker.cancel_requested]
    /\ k_call' = [k_call EXCEPT ![c].at = "release"]
    /\ UNCHANGED <<k_tracker, k_lock>>

\* Lines 41-46
ResetTracker(c) ==
    /\ k_call[c].at = "body"
    /\ k_call[c].method = "reset"
    /\ k_tracker' = NewTracker
    /\ k_call' = [k_call EXCEPT ![c].at = "release"]
    /\ UNCHANGED <<k_lock, k_answer>>

\* The end of the with block
ReleaseLock(c) ==
    /\ k_call[c].at = "release"
    /\ k_lock' = "free"
    /\ k_call' = [k_call EXCEPT ![c] = NoCall]
    /\ UNCHANGED <<k_tracker, k_answer>>

TrackerStep ==
    \E c \in Callers :
        \/ CallMethod(c)
        \/ AcquireLock(c)
        \/ UpdateProgress(c)
        \/ UpdateStatus(c)
        \/ GetProgress(c)
        \/ RequestCancel(c)
        \/ IsCancelled(c)
        \/ ResetTracker(c)
        \/ ReleaseLock(c)

\* The caller that is inside a method, holding the lock
Inside(c, method) == k_lock = c /\ k_call[c].method = method

ProgressInRange == 0 <= k_tracker.progress /\ k_tracker.progress <= 100

\* C28: the progress is between 0 and 1 in every state; the cancellation
\* flag, once set, is cleared by reset only; and while a thread is in update
\* with an empty status the status stays as it is
C28_TrackerInvariants ==
    /\ [](ProgressInRange)
    /\ [][/\ (k_tracker.cancel_requested /\ ~k_tracker'.cancel_requested)
                => \E c \in Callers : Inside(c, "reset")
          /\ \A c \in Callers :
                (Inside(c, "update") /\ k_call[c].status = "")
                    => k_tracker'.status = k_tracker.status]_vars

\* A thread is in update with a progress above 1 and an empty status, after
\* a status was set and cancellation was requested, and another thread waits
\* for the lock
C28_Witness ==
    \E c, o \in Callers :
        /\ Inside(c, "update")
        /\ k_call[c].at = "release"
        /\ k_call[c].progress = 150
        /\ k_call[c].status = ""
        /\ k_tracker.progress = 100
        /\ k_tracker.status # ""
        /\ k_tracker.cancel_requested
        /\ k_call[o].at = "acquire"

-----------------------------------------------------------------------------
(* The analysis page, run_analysis_with_progress and AnalysisThread.run    *)

\* The methods of ProgressTracker as one step each: their bodies run under
\* the lock of the tracker
update(tracker, progress, status) ==
    [tracker EXCEPT !.progress = Clamp(progress),
                    !.status = IF status # "" THEN status ELSE @]

request_cancel(tracker) == [tracker EXCEPT !.cancel_requested = TRUE]

is_cancelled(tracker) == tracker.cancel_requested

\* ---- one session of the page and the threads it starts

MaxThreads == 2

Threads == 1..MaxThreads

\* Thread.is_alive(): started and run() not yet left
Alive(t) == w_pc[t] \notin {"new", "ended"}

AnalysisIdle ==
    /\ h_running = FALSE
    /\ h_cancel = FALSE
    /\ h_shown = [progress |-> 0, status |-> ""]
    /\ h_pc = "idle"
    /\ h_thread = 0
    /\ h_button = FALSE
    /\ w_pc = [t \in Threads |-> "new"]
    /\ w_tracker = [t \in Threads |-> NewTracker]
    /\ w_exception = [t \in Threads |-> FALSE]

\* init_session_state: nothing runs
AnalysisInit ==
    /\ h_running = FALSE
    /\ h_cancel = FALSE
    /\ h_shown = [progress |-> 0, status |-> ""]
    /\ h_pc = "page"
    /\ h_thread = 0
    /\ h_button = FALSE
    /\ w_pc = [t \in Threads |-> "new"]
    /\ w_tracker = [t \in Threads |-> NewTracker]
    /\ w_exception = [t \in Threads |-> FALSE]

\* Page lines 218-232 and run_analysis_with_progress lines 221-238: the
\* start button when analysis_running is False; reset_analysis_state, a new
\* tracker and thread, thread.start(), and the value of the cancel button
StartAnalysis ==
    /\ h_pc = "page"
    /\ ~h_running
    /\ \E t \in Threads :
          /\ w_pc[t] = "new"
          /\ \A o \in Threads : o < t => w_pc[o] # "new"
          /\ w_pc' = [w_pc EXCEPT ![t] = "started"]
          /\ h_thread' = t
    /\ h_running' = TRUE
    /\ h_cancel' = FALSE
    /\ h_shown' = [progress |-> 0, status |-> ""]
    /\ \E cancel_button \in BOOLEAN : h_button' = cancel_button
    /\ h_pc' = "monitor"
    /\ UNCHANGED <<w_tracker, w_exception>>

\* Page lines 266-275: the cancel button shown while analysis_running
PressCancel ==
    /\ h_running
    /\ h_cancel' = TRUE
    /\ UNCHANGED <<h_running, h_shown, h_pc, h_thread, h_button, w_pc,
                   w_tracker, w_exception>>

\* Lines 241-259: the thread is alive and no cancellation is asked for; the
\* progress is shown and stored in the session
MonitorPoll ==
    /\ h_pc = "monitor"
    /\ Alive(h_thread)
    /\ ~(h_button \/ h_cancel)
    /\ h_shown' = [progress |-> w_tracker[h_thread].progress,
                   status |-> w_tracker[h_thread].status]
    /\ UNCHANGED <<h_running, h_cancel, h_pc, h_thread, h_button, w_pc,
                   w_tracker, w_exception>>

\* Lines 242-245: cancellation is asked for; request_cancel, then join
MonitorCancel ==
    /\ h_pc = "monitor"
    /\ Alive(h_thread)
    /\ h_button \/ h_cancel
    /\ w_tracker' = [w_tracker EXCEPT ![h_thread] = request_cancel(@)]
    /\ h_pc' = "joining"
    /\ UNCHANGED <<h_running, h_cancel, h_shown, h_thread, h_button, w_pc,
                   w_exception>>

\* Lines 245-250 and page line 264: join(timeout = 5.0) returns when the
\* thread has ended or when the time is over; False is returned and
\* analysis_running is set to False
JoinReturn ==
    /\ h_pc = "joining"
    /\ h_running' = FALSE
    /\ h_pc' = "page"
    /\ UNCHANGED <<h_cancel, h_shown, h_thread, h_button, w_pc, w_tracker,
                   w_exception>>

\* Lines 241 and 261-268 and page line 264: the thread is not alive; the
\* outcome is shown and analysis_running is set to False
MonitorExit ==
    /\ h_pc = "monitor"
    /\ ~Alive(h_thread)
    /\ h_running' = FALSE
    /\ h_pc' = "page"
    /\ UNCHANGED <<h_cancel, h_shown, h_thread, h_button, w_pc, w_tracker,
                   w_exception>>

\* AnalysisThread.run lines 90-91: cleaning is announced and begins
AnnounceCleaning(t) ==
    /\ w_pc[t] = "started"
    /\ w_tracker' = [w_tracker EXCEPT
                        ![t] = update(@, 10, "Cleaning output directories...")]
    /\ w_pc' = [w_pc EXCEPT ![t] = "clean"]
    /\ UNCHANGED <<h_running, h_cancel, h_shown, h_pc, h_thread, h_button,
                   w_exception>>

\* Lines 91-124: cleaning is over; the thread returns when cancellation was
\* requested, and prepares paths, parameters and callbacks otherwise
CheckAfterCleaning(t) ==
    /\ w_pc[t] = "clean"
    /\ w_pc' = [w_pc EXCEPT ![t] = IF is_cancelled(w_tracker[t]) THEN "ended"
                                   ELSE "prepare"]
    /\ UNCHANGED <<h_running, h_cancel, h_shown, h_pc, h_thread, h_button,
                   w_tracker, w_exception>>

\* Line 127: the classification is announced
StartClassification(t) ==
    /\ w_pc[t] = "prepare"
    /\ w_tracker' = [w_tracker EXCEPT
                        ![t] = update(@, 15, "Starting BirdNET analysis...")]
    /\ w_pc' = [w_pc EXCEPT ![t] = "birdnet"]
    /\ UNCHANGED <<h_running, h_cancel, h_shown, h_pc, h_thread, h_button,
                   w_exception>>

\* Lines 128-137 and 204-207: run_birdnet_analysis has no parameter
\* progress_callback (birdnetlib_api.py lines 35-43), the call raises
\* TypeError; the exception is kept, the error is reported through the
\* tracker and run() is left. Lines 139-202 are never reached
ClassificationRaises(t) ==
    /\ w_pc[t] = "birdnet"
    /\ w_exception' = [w_exception EXCEPT ![t] = TRUE]
    /\ w_tracker' = [w_tracker EXCEPT ![t] = update(@, 0, "Error")]
    /\ w_pc' = [w_pc EXCEPT ![t] = "ended"]
    /\ UNCHANGED <<h_running, h_cancel, h_shown, h_pc, h_thread, h_button>>

ThreadStep ==
    \E t \in Threads :
        \/ AnnounceCleaning(t)
        \/ CheckAfterCleaning(t)
        \/ StartClassification(t)
        \/ ClassificationRaises(t)

\* C26: at most one analysis thread is alive at any time
C26_OneRunInFlight ==
    \A t, o \in Threads : (Alive(t) /\ Alive(o)) => t = o

\* The statuses that announce a stage of the pipeline, and its completion
StageStatuses ==
    {"Starting BirdNET analysis...", "Processing detections...",
     "Enriching with taxonomic data...", "Saving results...",
     "Generating visualization...", "Splitting audio files...",
     "Generating statistics...", "Analysis complete!"}

\* C27: once cancellation is requested on the tracker of a thread, the
\* thread announces no further stage of the pipeline and does not report the
\* analysis complete
C27_NoStageAfterCancel ==
    [][\A t \in Threads :
          (w_tracker[t].cancel_requested
              /\ w_tracker'[t].status # w_tracker[t].status)
            => w_tracker'[t].status \notin StageStatuses]_vars

-----------------------------------------------------------------------------
(* The gaps between the detections of a species                             *)

\* C29: for a species with two or more timestamped detections the reported
\* gaps are those between detections consecutive in time, whatever the order
\* of the rows: the smallest gap is not negative, the mean is taken over one
\* gap less than there are timestamped detections, and the gaps add up to the
\* time from the first to the last detection, the active duration
C29_GapsBetweenConsecutiveTimes ==
    a_pc = "done" =>
        \A s \in NamedSpecies :
            StampedCount(s) >= 2 =>
                /\ a_species.value[s].gap_statistics # None
                /\ a_species.value[s].gap_statistics[1].min.num >= 0
                /\ a_species.value[s].gap_statistics[1].max.num <= SpanSeconds(s)
                /\ a_species.value[s].gap_statistics[1].avg.den
                       = 60 * (StampedCount(s) - 1)
                /\ a_species.value[s].gap_statistics[1].avg.num = SpanSeconds(s)
                /\ a_species.value[s].active_duration_minutes
                       = Some(Minutes(SpanSeconds(s), 1))

\* Three detections of one species, the rows not in the order of their times
C29_Witness ==
    /\ a_pc = "done"
    /\ Len(a_df) = 3
    /\ StampedCount("vipe") = 3
    /\ a_df[1].detection_datetime[1] > a_df[2].detection_datetime[1]
    /\ a_df[3].detection_datetime[1] < a_df[2].detection_datetime[1]
    /\ a_species.value["vipe"].gap_statistics[1].min.num > 0

-----------------------------------------------------------------------------
(* Specifications *)

OthersFetch == <<enrichVars, extractVars, temporalVars, localNameVars, pipelineVars, statusVars, activityVars, reportVars, summaryVars, selectVars, csvVars, trackerVars, analysisVars>>

InitFetch ==
    /\ FetchInit
    /\ EnrichIdle
    /\ ExtractIdle
    /\ TemporalIdle
    /\ LocalNameIdle
    /\ PipelineIdle
    /\ StatusIdle
    /\ ActivityIdle
    /\ ReportIdle
    /\ SummaryIdle
    /\ SelectIdle
    /\ CsvIdle
    /\ TrackerIdle
    /\ AnalysisIdle

NextFetch ==
    \/ FetchCall /\ UNCHANGED OthersFetch

SpecFetch == InitFetch /\ [][NextFetch]_vars

OthersEnrich == <<fetchVars, extractVars, temporalVars, localNameVars, pipelineVars, statusVars, activityVars, reportVars, summaryVars, selectVars, csvVars, trackerVars, analysisVars>>

InitEnrich ==
    /\ EnrichInit
    /\ FetchIdle
    /\ ExtractIdle
    /\ TemporalIdle
    /\ LocalNameIdle
    /\ PipelineIdle
    /\ StatusIdle
    /\ ActivityIdle
    /\ ReportIdle
    /\ SummaryIdle
    /\ SelectIdle
    /\ CsvIdle
    /\ TrackerIdle
    /\ AnalysisIdle

NextEnrich ==
    \/ EnrichStart /\ UNCHANGED OthersEnrich
    \/ SpeciesLookup /\ UNCHANGED OthersEnrich
    \/ ApplyTaxonomy /\ UNCHANGED OthersEnrich
    \/ FamilyLookup /\ UNCHANGED OthersEnrich
    \/ FamilyMap /\ UNCHANGED OthersEnrich
    \/ OrderLookup /\ UNCHANGED OthersEnrich
    \/ OrderMap /\ UNCHANGED OthersEnrich

SpecEnrich == InitEnrich /\ [][NextEnrich]_vars

OthersExtract == <<fetchVars, enrichVars, temporalVars, localNameVars, pipelineVars, statusVars, activityVars, reportVars, summaryVars, selectVars, csvVars, trackerVars, analysisVars>>

InitExtract ==
    /\ ExtractInit
    /\ FetchIdle
    /\ EnrichIdle
    /\ TemporalIdle
    /\ LocalNameIdle
    /\ PipelineIdle
    /\ StatusIdle
    /\ ActivityIdle
    /\ ReportIdle
    /\ SummaryIdle
    /\ SelectIdle
    /\ CsvIdle
    /\ TrackerIdle
    /\ AnalysisIdle

NextExtract ==
    \/ ExtractCall /\ UNCHANGED OthersExtract

SpecExtract == InitExtract /\ [][NextExtract]_vars

OthersTemporal == <<fetchVars, enrichVars, extractVars, localNameVars, pipelineVars, statusVars, activityVars, reportVars, summaryVars, selectVars, csvVars, trackerVars, analysisVars>>

InitTemporal ==
    /\ TemporalInit
    /\ FetchIdle
    /\ EnrichIdle
    /\ ExtractIdle
    /\ LocalNameIdle
    /\ PipelineIdle
    /\ StatusIdle
    /\ ActivityIdle
    /\ ReportIdle
    /\ SummaryIdle
    /\ SelectIdle
    /\ CsvIdle
    /\ TrackerIdle
    /\ AnalysisIdle

NextTemporal ==
    \/ CreateJoypyPlot /\ UNCHANGED OthersTemporal
    \/ GenerateStatisticsReport /\ UNCHANGED OthersTemporal

SpecTemporal == InitTemporal /\ [][NextTemporal]_vars

OthersLocalName == <<fetchVars, enrichVars, extractVars, temporalVars, pipelineVars, statusVars, activityVars, reportVars, summaryVars, selectVars, csvVars, trackerVars, analysisVars>>

InitLocalName ==
    /\ LocalNameInit
    /\ FetchIdle
    /\ EnrichIdle
    /\ ExtractIdle
    /\ TemporalIdle
    /\ PipelineIdle
    /\ StatusIdle
    /\ ActivityIdle
    /\ ReportIdle
    /\ SummaryIdle
    /\ SelectIdle
    /\ CsvIdle
    /\ TrackerIdle
    /\ AnalysisIdle

NextLocalName ==
    \/ LocalNameCall /\ UNCHANGED OthersLocalName

SpecLocalName == InitLocalName /\ [][NextLocalName]_vars

OthersPipeline == <<fetchVars, enrichVars, extractVars, temporalVars, localNameVars, statusVars, activityVars, reportVars, summaryVars, selectVars, csvVars, trackerVars, analysisVars>>

InitPipeline ==
    /\ PipelineInit
    /\ FetchIdle
    /\ EnrichIdle
    /\ ExtractIdle
    /\ TemporalIdle
    /\ LocalNameIdle
    /\ StatusIdle
    /\ ActivityIdle
    /\ ReportIdle
    /\ SummaryIdle
    /\ SelectIdle
    /\ CsvIdle
    /\ TrackerIdle
    /\ AnalysisIdle

NextPipeline ==
    \/ InitializeDataFrame /\ UNCHANGED OthersPipeline
    \/ EnrichDetections /\ UNCHANGED OthersPipeline
    \/ SaveCsv /\ UNCHANGED OthersPipeline
    \/ JoypyPlot /\ UNCHANGED OthersPipeline
    \/ SplitAudio /\ UNCHANGED OthersPipeline
    \/ StatisticsReport /\ UNCHANGED OthersPipeline

SpecPipeline == InitPipeline /\ [][NextPipeline]_vars

OthersStatus == <<fetchVars, enrichVars, extractVars, temporalVars, localNameVars, pipelineVars, activityVars, reportVars, summaryVars, selectVars, csvVars, trackerVars, analysisVars>>

InitStatus ==
    /\ StatusInit
    /\ FetchIdle
    /\ EnrichIdle
    /\ ExtractIdle
    /\ TemporalIdle
    /\ LocalNameIdle
    /\ PipelineIdle
    /\ ActivityIdle
    /\ ReportIdle
    /\ SummaryIdle
    /\ SelectIdle
    /\ CsvIdle
    /\ TrackerIdle
    /\ AnalysisIdle

NextStatus ==
    \/ StatusCall /\ UNCHANGED OthersStatus

SpecStatus == InitStatus /\ [][NextStatus]_vars

OthersActivity == <<fetchVars, enrichVars, extractVars, temporalVars, localNameVars, pipelineVars, statusVars, reportVars, summaryVars, selectVars, csvVars, trackerVars, analysisVars>>

InitActivity ==
    /\ ActivityInit
    /\ FetchIdle
    /\ EnrichIdle
    /\ ExtractIdle
    /\ TemporalIdle
    /\ LocalNameIdle
    /\ PipelineIdle
    /\ StatusIdle
    /\ ReportIdle
    /\ SummaryIdle
    /\ SelectIdle
    /\ CsvIdle
    /\ TrackerIdle
    /\ AnalysisIdle

NextActivity ==
    \/ AddTimeFeatures /\ UNCHANGED OthersActivity
    \/ AnalyzeDailyActivity /\ UNCHANGED OthersActivity
    \/ AnalyzeSpeciesPatterns /\ UNCHANGED OthersActivity

SpecActivity == InitActivity /\ [][NextActivity]_vars

OthersReport == <<fetchVars, enrichVars, extractVars, temporalVars, localNameVars, pipelineVars, statusVars, activityVars, summaryVars, selectVars, csvVars, trackerVars, analysisVars>>

InitReport ==
    /\ ReportInit
    /\ FetchIdle
    /\ EnrichIdle
    /\ ExtractIdle
    /\ TemporalIdle
    /\ LocalNameIdle
    /\ PipelineIdle
    /\ StatusIdle
    /\ ActivityIdle
    /\ SummaryIdle
    /\ SelectIdle
    /\ CsvIdle
    /\ TrackerIdle
    /\ AnalysisIdle

NextReport ==
    \/ EmptyFrame /\ UNCHANGED OthersReport
    \/ ConfidenceBands /\ UNCHANGED OthersReport
    \/ TemporalAnalysis /\ UNCHANGED OthersReport

SpecReport == InitReport /\ [][NextReport]_vars

OthersSummary == <<fetchVars, enrichVars, extractVars, temporalVars, localNameVars, pipelineVars, statusVars, activityVars, reportVars, selectVars, csvVars, trackerVars, analysisVars>>

InitSummary ==
    /\ SummaryInit
    /\ FetchIdle
    /\ EnrichIdle
    /\ ExtractIdle
    /\ TemporalIdle
    /\ LocalNameIdle
    /\ PipelineIdle
    /\ StatusIdle
    /\ ActivityIdle
    /\ ReportIdle
    /\ SelectIdle
    /\ CsvIdle
    /\ TrackerIdle
    /\ AnalysisIdle

NextSummary ==
    \/ CountObservations /\ UNCHANGED OthersSummary
    \/ PrintSummaryStatistics /\ UNCHANGED OthersSummary

SpecSummary == InitSummary /\ [][NextSummary]_vars

OthersSelect == <<fetchVars, enrichVars, extractVars, temporalVars, localNameVars, pipelineVars, statusVars, activityVars, reportVars, summaryVars, csvVars, trackerVars, analysisVars>>

InitSelect ==
    /\ SelectInit
    /\ FetchIdle
    /\ EnrichIdle
    /\ ExtractIdle
    /\ TemporalIdle
    /\ LocalNameIdle
    /\ PipelineIdle
    /\ StatusIdle
    /\ ActivityIdle
    /\ ReportIdle
    /\ SummaryIdle
    /\ CsvIdle
    /\ TrackerIdle
    /\ AnalysisIdle

NextSelect ==
    \/ NoDetections /\ UNCHANGED OthersSelect
    \/ SelectDetections /\ UNCHANGED OthersSelect
    \/ SkipSegment /\ UNCHANGED OthersSelect
    \/ SaveSegment /\ UNCHANGED OthersSelect
    \/ SplitReturn /\ UNCHANGED OthersSelect

SpecSelect == InitSelect /\ [][NextSelect]_vars

OthersCsv == <<fetchVars, enrichVars, extractVars, temporalVars, localNameVars, pipelineVars, statusVars, activityVars, reportVars, summaryVars, selectVars, trackerVars, analysisVars>>

InitCsv ==
    /\ CsvInit
    /\ FetchIdle
    /\ EnrichIdle
    /\ ExtractIdle
    /\ TemporalIdle
    /\ LocalNameIdle
    /\ PipelineIdle
    /\ StatusIdle
    /\ ActivityIdle
    /\ ReportIdle
    /\ SummaryIdle
    /\ SelectIdle
    /\ TrackerIdle
    /\ AnalysisIdle

NextCsv ==
    \/ WriteEnrichedCsv /\ UNCHANGED OthersCsv
    \/ ReadEnrichedCsv /\ UNCHANGED OthersCsv
    \/ CountFromFile /\ UNCHANGED OthersCsv

SpecCsv == InitCsv /\ [][NextCsv]_vars

OthersTracker == <<fetchVars, enrichVars, extractVars, temporalVars, localNameVars, pipelineVars, statusVars, activityVars, reportVars, summaryVars, selectVars, csvVars, analysisVars>>

InitTracker ==
    /\ TrackerInit
    /\ FetchIdle
    /\ EnrichIdle
    /\ ExtractIdle
    /\ TemporalIdle
    /\ LocalNameIdle
    /\ PipelineIdle
    /\ StatusIdle
    /\ ActivityIdle
    /\ ReportIdle
    /\ SummaryIdle
    /\ SelectIdle
    /\ CsvIdle
    /\ AnalysisIdle

NextTracker ==
    \/ TrackerStep /\ UNCHANGED OthersTracker

SpecTracker == InitTracker /\ [][NextTracker]_vars

OthersAnalysis == <<fetchVars, enrichVars, extractVars, temporalVars, localNameVars, pipelineVars, statusVars, activityVars, reportVars, summaryVars, selectVars, csvVars, trackerVars>>

InitAnalysis ==
    /\ AnalysisInit
    /\ FetchIdle
    /\ EnrichIdle
    /\ ExtractIdle
    /\ TemporalIdle
    /\ LocalNameIdle
    /\ PipelineIdle
    /\ StatusIdle
    /\ ActivityIdle
    /\ ReportIdle
    /\ SummaryIdle
    /\ SelectIdle
    /\ CsvIdle
    /\ TrackerIdle

NextAnalysis ==
    \/ StartAnalysis /\ UNCHANGED OthersAnalysis
    \/ PressCancel /\ UNCHANGED OthersAnalysis
    \/ MonitorPoll /\ UNCHANGED OthersAnalysis
    \/ MonitorCancel /\ UNCHANGED OthersAnalysis
    \/ JoinReturn /\ UNCHANGED OthersAnalysis
    \/ MonitorExit /\ UNCHANGED OthersAnalysis
    \/ ThreadStep /\ UNCHANGED OthersAnalysis

SpecAnalysis == InitAnalysis /\ [][NextAnalysis]_vars

====
